---- MODULE Spec2Model ----
(***************************************************************************)
(* Model of the agent pool of src/ace/runners/agent_pool.py (AgentPool),   *)
(* its drivers run_until_empty / run_continuous, the per-item workflow     *)
(* task _run_agent_for_issue, and the naming helpers of                    *)
(* src/ace/workspaces (session_name_for_issue, get_worktree_path).         *)
(*                                                                         *)
(* The pool runs on one asyncio event loop: code between two awaits is     *)
(* one atomic step.  Every action below is one such stretch of code.       *)
(***************************************************************************)
EXTENDS Integers, Sequences, FiniteSets, TLC

(* ------------------------------ bounds -------------------------------- *)
\* number of slots of the pool (constructor argument max_agents)
MaxAgents == 2
\* longest list a board fetch returns
MaxFetch == 1
\* most workflows spawned in one behaviour (caps the counters of the pool):
\* one more than the pool has slots, so that a pool could be overfilled
MaxSpawns == MaxAgents + 1
\* longest tail of a repository name fed to session_name_for_issue
MaxTail == 2

\* largest limit given to set_max_issues_per_run
MaxLimit == 2
\* most blockers an issue has
MaxBlockers == 2
\* largest value of the setting github_api_max_retries
MaxRetries == 2
\* last tick of the clock of the done-marker wait
MaxTime == 8
\* number of different states the worktree goes through during a wait
MaxSignature == 2
\* largest value of the setting task_nudge_max_attempts
MaxNudgeAttempts == 2
\* largest value of the setting task_nudge_max_restarts
MaxNudgeRestarts == 1

\* number of tasks in a task plan
MaxTasks == 2

\* number of pools that share one workspace root
MaxPools == 2
\* last instant of the reclaimer's clock
MaxClock == 2

\* longest label list of an issue in the workflow graph
MaxLabels == 2

\* number of start_session calls on one name that the history keeps
MaxCalls == 2

\* items one board fetch, review comments one PR fetch, and keys one advisor
\* answer hands to a queue build
MaxQueueFetch == 2

\* coroutines the service and the scheduler have running on one pool
MaxDrivers == 3
\* unprocessed items on the board when the service starts
MaxBoard == 2

(* --------------------------- program constants ------------------------ *)
\* AgentPool.__init__: max_issues_per_run: int = 0 (0 = unlimited)
DefaultMaxIssuesPerRun == 0
\* tmux_ops.py: slug[:60]
SessionNameMax == 60

(* ------------------------------ the board ----------------------------- *)
Owners == {"acme", "forge"}
Repos == {"app"}
Numbers == {1}
\* the coroutines driving the pool: driver 1 is a run_until_empty call
\* (POST /agents/run, the daily scheduler, the CLI), driver 2 a run_continuous
\* call (POST /agents/start)
Drivers == {1, 2}
mode == [d \in Drivers |-> IF d = 1 THEN "drain" ELSE "continuous"]

\* Issue (github/issue_queue.py), reduced to the fields that identify it
Items == [repo_owner : Owners, repo_name : Repos, number : Numbers]
NoItem == [repo_owner |-> "", repo_name |-> "", number |-> 0]
NoKey == << >>
NoTask == << >>
NoError == << >>
NoSlot == -1

\* review-comment ids returned by list_pr_review_comments
CommentIds == {7}

\* sequences over S of length at most n
SeqUpTo(S, n) == UNION {[1..k -> S] : k \in 0..n}

VARIABLES
    slots,              \* AgentPool.slots: slot_id -> AgentSlot
    tasks,              \* the asyncio tasks running _run_agent_for_issue
    processed_issues,   \* AgentPool._processed_issues
    fatal_error,        \* AgentPool._fatal_error
    running,            \* AgentPool._running
    draining,           \* AgentPool._draining
    completed_count,    \* AgentPool._completed_count
    failed_count,       \* AgentPool._failed_count
    session_processed,  \* AgentPool._session_processed
    max_issues_per_run, \* AgentPool.max_issues_per_run
    active_gauge,       \* metrics gauge ace_active_agents
    pc,                 \* per driver: where its coroutine is suspended
    phase,              \* per driver: the build it awaits belongs to "pass"
                        \* (process_work_queue) or is the "recheck" of run_until_empty
    ip_fetched,         \* per driver: result of fetch_in_progress_issues
    ready_fetched,      \* per driver: the issues of fetch_ready_issues that passed
                        \* its processed filter
    spawned_total,      \* history: spawn_agent calls that returned True
    processed_at_entry, \* history: _processed_issues when the driver entered the build
                        \* it is awaiting ({} outside a build)
    name_in,            \* inputs of session_name_for_issue: two (repo, number) pairs
    name_out,           \* the two session names computed from name_in
    target,             \* AgentPool.target
    board_labels,       \* the labels the issue has on GitHub right now
    board_blockers,     \* the numbers of the issues that block the issue
    board_status,       \* the project status of every blocker
    board_assignee,     \* whether the issue has an assignee
    cand,               \* the Issue object a fetch is evaluating
    admit_pc,           \* where the fetch that evaluates cand is suspended
    admit_queue,        \* the Issue objects _build_work_queue put in the queue
    max_retries,        \* settings.github_api_max_retries
    call_kind,          \* the client call in progress: "rest" or "graphql"
    retry_pc,           \* where the client call is suspended
    attempt,            \* _request: attempt
    gql_attempt,        \* graphql: attempt
    requests_sent,      \* history: HTTP requests the call has sent
    last_reply,         \* what the last request ended with
    call_result,        \* how the client call ended
    cfg,                \* the task_* settings run_agent reads
    now,                \* loop.time(), in ticks
    session_alive,      \* whether the tmux session of the item exists
    done_marker,        \* whether ACE_TASK_DONE.json holds a marker
    repo_signature,     \* the state of the worktree (HEAD and status), as a number
    wait_pc,            \* run_agent: where the coroutine is suspended
    session_name,       \* run_agent: whether the agent result names a session
    restart_attempts,   \* run_agent: restart_attempts
    agent_result,       \* run_agent: state.agent_result.error ("success" if none)
    wait_status,        \* run_agent: wait_status
    start_time,         \* wait loop: start_time
    last_progress_time, \* wait loop: last_progress_time
    last_nudge_time,    \* wait loop: last_nudge_time
    nudge_count,        \* wait loop: nudge_count
    last_signature,     \* wait loop: last_signature
    h_seen_signature,   \* history: the last signature a poll could read
    h_progress,         \* history: when the wait began or a poll last read a new signature
    h_sent,             \* history: nudges sent since h_progress
    h_last_nudge,       \* history: time of the latest nudge of this wait (0: none)
    h_prev_nudge,       \* history: time of the nudge before it (0: none)
    h_nudge_idle,       \* history: now - h_progress when the latest nudge was sent
    h_total_nudges,     \* history: nudges sent for the task, all waits together
    h_restarts,         \* history: times the session was killed for a restart
    h_session_lost,     \* history: the session vanished during the wait
    marker_file,        \* content of ACE_TASK_DONE.json in the worktree
    plan,               \* TaskPlan.tasks: task id -> status
    plan_pr_url,        \* TaskPlan.pr_url is set
    auto_advance,       \* run_agent: auto_advance
    task_pc,            \* position of run_agent in its task loop
    task_result,        \* state.agent_result of the run
    h_bad_read,         \* history: this run read a marker file that is unusable
    h_end_marker,       \* history: marker_file when the run returned
    ws_mtime,           \* worktrees/<repo>/<n>: last activity, Absent when missing
    root_exists,        \* the directory worktrees exists
    tmux_sessions,      \* tmux sessions: name -> last activity, Absent when none
    rc_slots,           \* per pool: the item its slot runs and how far the run is
    clock,              \* the time
    rc_cfg,             \* cleanup settings
    h_removed,          \* history: the worktrees the last sweep removed
    h_killed,           \* history: the sessions the last sweep killed
    g_pc,               \* the node of the workflow graph that runs next
    g_entry,            \* who built the initial WorkerState
    g_issue,            \* WorkerState.issue: present, labels, repository known
    g_branch_name,      \* WorkerState.branch_name
    g_selected,         \* WorkerState.backend and metadata['model']
    g_settings,         \* disable_issue_status and the difficulty table
    g_board_status,     \* project status of the item on the board
    g_claim_comment,    \* a claim comment is on the issue
    h_comment_call,     \* history: outcome of post_comment in claim_issue
    h_status_call,      \* history: outcome of set_project_status in claim_issue
    tmux_srv,           \* the tmux server: session name -> session, NoSession when none
    h_calls,            \* history: per name, the start_session calls since the last kill or exit
    sd_pc,              \* position of AgentPool.shutdown
    sd_waited,          \* the tasks wait_for_completion waits for
    client_closed,      \* shutdown has closed self._api_client
    h_inflight_at_close,\* history: workflow tasks not done when the client was closed
    wq_comments,        \* the review comments list_pr_review_comments returns, with their PR
    wq_processed,       \* _processed_issues when the queue is built
    wq_in_progress,     \* fetch_in_progress_issues' result after _filter_actionable
    wq_ready,           \* fetch_ready_issues' result after _filter_actionable
    wq_manager,         \* settings.manager_agent_enabled
    wq_pc,              \* where _build_work_queue is: fetched, advising, returned
    wq_ordered,         \* the local list ordered of _build_work_queue
    wq_counts,          \* the counts _build_work_queue returns
    wq_ordered_keys,    \* the advisor's answer
    wq_queue,           \* the queue _build_work_queue returns
    rd_response,        \* the response _retry_delay is called with, NoResponse after a transport error
    rd_attempt,         \* the attempt number of the call
    rd_now,             \* time.time(), in seconds
    rd_settings,        \* github_api_retry_base_seconds and github_api_retry_max_seconds
    rd_pc,              \* called or returned
    rd_delay,           \* the delay _retry_delay returned
    h_branch,           \* history: the return statement that produced the delay
    sv_driver,          \* per coroutine started on the pool: what it runs and where it is suspended
    sv_active,          \* the number of running slots of the pool
    sv_board,           \* the number of board items no pass has admitted yet
    sv_running,         \* AgentPool._running as the service's coroutines see it
    sv_draining,        \* AgentPool._draining as the service's coroutines see it
    sv_sched,           \* the coroutine run_daily awaits, 0 when it sleeps
    sv_response,        \* the status of the last answer of /agents/run
    h_run_over_drain    \* history: /agents/run started a drain while a drain was running

poolVars == <<slots, tasks, processed_issues, fatal_error, running,
              draining, completed_count, failed_count, session_processed,
              max_issues_per_run, active_gauge>>
driverVars == <<pc, phase, ip_fetched, ready_fetched>>
histVars == <<spawned_total, processed_at_entry>>
nameVars == <<name_in, name_out>>
admitVars == <<target, board_labels, board_blockers, board_status,
               board_assignee, cand, admit_pc, admit_queue>>
retryVars == <<max_retries, call_kind, retry_pc, attempt, gql_attempt,
               requests_sent, last_reply, call_result>>
waitVars == <<cfg, now, session_alive, done_marker, repo_signature, wait_pc,
              session_name, restart_attempts, agent_result, wait_status,
              start_time, last_progress_time, last_nudge_time, nudge_count,
              last_signature>>
waitHist == <<h_seen_signature, h_progress, h_sent, h_last_nudge, h_prev_nudge,
              h_nudge_idle, h_total_nudges, h_restarts, h_session_lost>>
taskVars == <<marker_file, plan, plan_pr_url, auto_advance, task_pc,
              task_result, h_bad_read, h_end_marker>>
reclaimVars == <<ws_mtime, root_exists, tmux_sessions, rc_slots, clock,
                 rc_cfg, h_removed, h_killed>>
graphVars == <<g_pc, g_entry, g_issue, g_branch_name, g_selected, g_settings,
               g_board_status, g_claim_comment, h_comment_call,
               h_status_call>>
tmuxVars == <<tmux_srv, h_calls>>
shutdownVars == <<sd_pc, sd_waited, client_closed, h_inflight_at_close>>
queueVars == <<wq_comments, wq_processed, wq_in_progress, wq_ready,
               wq_manager, wq_pc, wq_ordered, wq_counts, wq_ordered_keys,
               wq_queue>>
delayVars == <<rd_response, rd_attempt, rd_now, rd_settings, rd_pc, rd_delay,
               h_branch>>
serviceVars == <<sv_driver, sv_active, sv_board, sv_running, sv_draining,
                 sv_sched, sv_response, h_run_over_drain>>
sideVars == <<nameVars, admitVars, retryVars, waitVars, waitHist,
              taskVars,
              reclaimVars,
              graphVars,
              tmuxVars,
              shutdownVars,
              queueVars,
              delayVars,
              serviceVars>>
vars == <<poolVars, driverVars, histVars, sideVars>>

SlotIds == 0..(MaxAgents - 1)

(* ------------------------------ helpers ------------------------------- *)
\* AgentPool._issue_key: f"issue:{owner}/{repo}#{number}"
IssueKey(issue) == <<"issue", issue.repo_owner, issue.repo_name, issue.number>>

\* AgentPool._pr_comment_key: f"pr_comment:{owner}/{repo}#{number}:{comment_id}"
PrCommentKey(issue, comment_id) ==
    <<"pr_comment", issue.repo_owner, issue.repo_name, issue.number, comment_id>>

\* GitOps.get_worktree_path: <root>/worktrees/<repo_name>/<number>
WorktreePath(issue) == <<"worktrees", issue.repo_name, issue.number>>

IdleSlot == [state |-> "idle", issue |-> NoItem, task |-> NoTask, work_key |-> NoKey]

\* every WorkKey the pool can form
AllKeys == {IssueKey(i) : i \in Items}
             \cup {PrCommentKey(i, c) : i \in Items, c \in CommentIds}

\* how graph.ainvoke ends: a final state with a successful (or no) agent
\* result, a final state with a failed agent result of the given error, or
\* an exception raised out of the graph
ItemLevelKinds == {"instruction_refusal", "missing_done_file",
                   "task_wait_timeout", "task_nudge_exceeded"}
SuccessOutcomes == {"success"}
FailureOutcomes == ItemLevelKinds \cup {"exception"}
Outcomes == SuccessOutcomes \cup FailureOutcomes

\* AgentPool._format_fatal_error: prefix the message unless already prefixed;
\* an error message is a sequence of words
FormatFatalError(error) ==
    LET message == IF error = << >> THEN <<"unexpected failure">> ELSE error
    IN IF message[1] = "ERROR" THEN message ELSE <<"ERROR">> \o message

\* AgentPool.stop: the values it gives _running and _draining
StopFlags == [running |-> FALSE, draining |-> FALSE]

\* _set_fatal_error without the "already latched" guard
SetFatalErrorOverwrite(fl, error) ==
    [fatal_error |-> FormatFatalError(error),
     running |-> StopFlags.running, draining |-> StopFlags.draining]

\* AgentPool._set_fatal_error, on the record of the pool's flags:
\* keep a latched error, else latch the formatted error and stop()
SetFatalError(fl, error) ==
    IF fl.fatal_error # NoError
    THEN fl
    ELSE [fatal_error |-> FormatFatalError(error),
          running |-> StopFlags.running, draining |-> StopFlags.draining]

\* _get_idle_slot returning the first slot without looking at its state
GetIdleSlotUnchecked(sl) ==
    IF \E s \in SlotIds : sl[s].state = "idle" THEN 0 ELSE NoSlot

\* AgentPool._get_idle_slot: the first idle slot, if any
GetIdleSlot(sl) ==
    IF \E s \in SlotIds : sl[s].state = "idle"
    THEN CHOOSE s \in SlotIds :
            /\ sl[s].state = "idle"
            /\ \A r \in SlotIds : sl[r].state = "idle" => s <= r
    ELSE NoSlot

\* AgentPool.get_status: idle_slots and active_agents
IdleSlots(sl) == Cardinality({s \in SlotIds : sl[s].state = "idle"})
ActiveAgents(sl) == Cardinality({s \in SlotIds : sl[s].state = "running"})

\* the task object asyncio.create_task returns for a workflow: the tasks alive
\* at one time differ in their slot, so the slot and the key name the task
TaskOf(s, work_key) == <<s, work_key>>

\* spawn_agent that leaves the slot idle until the task itself starts
SpawnAgentNoReserve(st, issue, work_key) ==
    LET s == GetIdleSlot(st.slots)
    IN IF s = NoSlot
       THEN st
       ELSE [st EXCEPT
               !.slots[s] = [state |-> "idle", issue |-> issue,
                             task |-> TaskOf(s, work_key), work_key |-> work_key],
               !.processed = @ \cup {work_key},
               !.tasks = @ \cup {[slot |-> s, issue |-> issue, key |-> work_key,
                                  pc |-> "created"]},
               !.spawned_total = @ + 1]

\* spawn_agent that does not record the key as processed
SpawnAgentNoMark(st, issue, work_key) ==
    LET s == GetIdleSlot(st.slots)
    IN IF s = NoSlot
       THEN st
       ELSE [st EXCEPT
               !.slots[s] = [state |-> "running", issue |-> issue,
                             task |-> TaskOf(s, work_key), work_key |-> work_key],
               !.tasks = @ \cup {[slot |-> s, issue |-> issue, key |-> work_key,
                                  pc |-> "created"]},
               !.spawned_total = @ + 1]

\* AgentPool.spawn_agent on the pool state st = [slots, tasks, processed,
\* spawned_total]; st is unchanged when no slot is idle (returns False)
SpawnAgent(st, issue, work_key) ==
    LET s == GetIdleSlot(st.slots)
    IN IF s = NoSlot
       THEN st
       ELSE [st EXCEPT
               !.slots[s] = [state |-> "running", issue |-> issue,
                             task |-> TaskOf(s, work_key), work_key |-> work_key],
               !.processed = @ \cup {work_key},
               !.tasks = @ \cup {[slot |-> s, issue |-> issue, key |-> work_key,
                                  pc |-> "created"]},
               !.spawned_total = @ + 1]

\* the spawn loop of process_work_queue over work_queue[i..]:
\* acc = [st, spawned, skipped]
RECURSIVE SpawnLoop(_, _, _)
SpawnLoop(acc, work_queue, i) ==
    IF i > Len(work_queue)
    THEN acc
    ELSE IF IdleSlots(acc.st.slots) = 0
         THEN [acc EXCEPT !.skipped = @ + (Len(work_queue) - acc.spawned - acc.skipped)]
         ELSE LET st2 == SpawnAgent(acc.st, work_queue[i].issue, work_queue[i].key)
              IN IF st2 # acc.st
                 THEN SpawnLoop([acc EXCEPT !.st = st2, !.spawned = @ + 1], work_queue, i + 1)
                 ELSE SpawnLoop([acc EXCEPT !.skipped = @ + 1], work_queue, i + 1)

\* Python's seq[:n], n possibly negative
PySlicePrefix(seq, n) ==
    IF n >= 0
    THEN SubSeq(seq, 1, IF n < Len(seq) THEN n ELSE Len(seq))
    ELSE SubSeq(seq, 1, IF Len(seq) + n > 0 THEN Len(seq) + n ELSE 0)

\* [issue for issue in issues if issue.number not in seen_numbers]
DropSeenNumbers(issues, seen_numbers) ==
    SelectSeq(issues, LAMBDA issue : issue.number \notin seen_numbers)

KeyedIssues(issues) ==
    [k \in 1..Len(issues) |-> [issue |-> issues[k], key |-> IssueKey(issues[k])]]

\* AgentPool._build_work_queue with the manager advisor off.  Line 410
\* rebinds pr_items to [] before the loop that would dedupe it, so the fetched
\* PR-comment items are dropped and seen_numbers stays empty.
BuildWorkQueue(fetched_pr_items, in_progress, ready) ==
    LET pr_items == << >>
        seen_numbers == {pr_items[k].issue.number : k \in 1..Len(pr_items)}
        in_progress2 == DropSeenNumbers(in_progress, seen_numbers)
        ready2 == DropSeenNumbers(ready, seen_numbers)
    IN pr_items \o KeyedIssues(in_progress2) \o KeyedIssues(ready2)

\* the filter "key not in self._processed_issues" of the fetch_* methods
NotProcessed(issues, processed) ==
    SelectSeq(issues, LAMBDA issue : IssueKey(issue) \notin processed)

QueueKeys(work_queue) == {work_queue[k].key : k \in 1..Len(work_queue)}


\* a finally block that resets the state but keeps the slot's fields
FinalizeSlotStateOnly(sl, s) == [sl EXCEPT ![s].state = "idle"]

\* the finally block of _run_agent_for_issue on the task's slot
FinalizeSlot(sl, s) == [sl EXCEPT ![s] = IdleSlot]

\* _run_agent_for_issue suspended between the assignment of the completed
\* or failed slot state and its finally block
RunAgentEndSuspended(w, task, outcome) ==
    [w EXCEPT !.slots = [w.slots EXCEPT ![task.slot].state =
                            IF outcome \in SuccessOutcomes THEN "completed" ELSE "failed"]]

\* _run_agent_for_issue that counts a failed agent result of an item-level
\* kind without raising, so that only exceptions latch the fatal error
RunAgentEndItemLevel(w, task, outcome) ==
    LET fl == SetFatalError([fatal_error |-> w.fatal_error, running |-> w.running,
                             draining |-> w.draining],
                            FormatFatalError(<<outcome>>))
    IN IF outcome \in SuccessOutcomes
       THEN [w EXCEPT !.slots = FinalizeSlot(w.slots, task.slot),
                      !.completed_count = @ + 1,
                      !.session_processed = @ + 1,
                      !.active_gauge = @ - 1]
       ELSE IF outcome \in ItemLevelKinds
       THEN [w EXCEPT !.slots = FinalizeSlot(w.slots, task.slot),
                      !.failed_count = @ + 1,
                      !.session_processed = @ + 1,
                      !.active_gauge = @ - 1]
       ELSE [w EXCEPT !.slots = FinalizeSlot(w.slots, task.slot),
                      !.failed_count = @ + 1,
                      !.session_processed = @ + 1,
                      !.fatal_error = fl.fatal_error,
                      !.running = fl.running,
                      !.draining = fl.draining,
                      !.active_gauge = @ - 1]

\* _run_agent_for_issue from the return of graph.ainvoke to the end of the
\* finally block, on w = [slots, fatal_error, running, draining,
\* completed_count, failed_count, session_processed, active_gauge].
\* A failed agent result raises RuntimeError inside the try, so it takes the
\* same except branch as an exception raised by the graph.
RunAgentEnd(w, task, outcome) ==
    LET fl == SetFatalError([fatal_error |-> w.fatal_error, running |-> w.running,
                             draining |-> w.draining],
                            FormatFatalError(<<outcome>>))
    IN IF outcome \in SuccessOutcomes
       THEN [w EXCEPT !.slots = FinalizeSlot(w.slots, task.slot),
                      !.completed_count = @ + 1,
                      !.session_processed = @ + 1,
                      !.active_gauge = @ - 1]
       ELSE [w EXCEPT !.slots = FinalizeSlot(w.slots, task.slot),
                      !.failed_count = @ + 1,
                      !.session_processed = @ + 1,
                      !.fatal_error = fl.fatal_error,
                      !.running = fl.running,
                      !.draining = fl.draining,
                      !.active_gauge = @ - 1]

(* ------------------------------- Init --------------------------------- *)
NameInit ==
    /\ name_in = << >>
    /\ name_out = << >>

PoolInit ==
    /\ slots = [s \in SlotIds |-> IdleSlot]
    /\ tasks = {}
    /\ processed_issues = {}
    /\ fatal_error = NoError
    /\ running = FALSE
    /\ draining = FALSE
    /\ completed_count = 0
    /\ failed_count = 0
    /\ session_processed = 0
    /\ max_issues_per_run = DefaultMaxIssuesPerRun
    /\ active_gauge = 0
    /\ pc = [d \in Drivers |-> "idle"]
    /\ phase = [d \in Drivers |-> "pass"]
    /\ ip_fetched = [d \in Drivers |-> << >>]
    /\ ready_fetched = [d \in Drivers |-> << >>]
    /\ spawned_total = 0
    /\ processed_at_entry = [d \in Drivers |-> {}]

\* the admission filter is not exercised: its variables rest
AdmitIdle ==
    /\ target = "any"
    /\ board_labels = {}
    /\ board_blockers = {}
    /\ board_status = << >>
    /\ board_assignee = FALSE
    /\ cand = << >>
    /\ admit_pc = "idle"
    /\ admit_queue = << >>

\* no client call is modelled: the variables of the client rest
RetryIdle ==
    /\ max_retries = 0
    /\ call_kind = "none"
    /\ retry_pc = "idle"
    /\ attempt = 0
    /\ gql_attempt = 0
    /\ requests_sent = 0
    /\ last_reply = << >>
    /\ call_result = "none"

\* no done-marker wait is modelled: its variables rest
WaitIdle ==
    /\ cfg = << >>
    /\ now = 0
    /\ session_alive = FALSE
    /\ done_marker = FALSE
    /\ repo_signature = 0
    /\ wait_pc = "idle"
    /\ session_name = FALSE
    /\ restart_attempts = 0
    /\ agent_result = "none"
    /\ wait_status = "none"
    /\ start_time = 0
    /\ last_progress_time = 0
    /\ last_nudge_time = 0
    /\ nudge_count = 0
    /\ last_signature = 0
    /\ h_seen_signature = 0
    /\ h_progress = 0
    /\ h_sent = 0
    /\ h_last_nudge = 0
    /\ h_prev_nudge = 0
    /\ h_nudge_idle = 0
    /\ h_total_nudges = 0
    /\ h_restarts = 0
    /\ h_session_lost = FALSE

\* ids of the tasks of a plan; the value of a missing marker file
TaskIds == 1..MaxTasks
NoMarker == [kind |-> "none", task_id |-> 0]

TasksIdle ==
    /\ marker_file = NoMarker
    /\ plan = [t \in TaskIds |-> "pending"]
    /\ plan_pr_url = FALSE
    /\ auto_advance = TRUE
    /\ task_pc = "idle"
    /\ task_result = "none"
    /\ h_bad_read = FALSE
    /\ h_end_marker = NoMarker

ReclaimIdle ==
    /\ ws_mtime = << >>
    /\ root_exists = FALSE
    /\ tmux_sessions = << >>
    /\ rc_slots = << >>
    /\ clock = 0
    /\ rc_cfg = << >>
    /\ h_removed = {}
    /\ h_killed = {}

GraphIdle ==
    /\ g_pc = "idle"
    /\ g_entry = "none"
    /\ g_issue = << >>
    /\ g_branch_name = ""
    /\ g_selected = << >>
    /\ g_settings = << >>
    /\ g_board_status = "Ready"
    /\ g_claim_comment = FALSE
    /\ h_comment_call = "none"
    /\ h_status_call = "none"

TmuxIdle ==
    /\ tmux_srv = << >>
    /\ h_calls = << >>

ShutdownIdle ==
    /\ sd_pc = "idle"
    /\ sd_waited = {}
    /\ client_closed = FALSE
    /\ h_inflight_at_close = {}

QueueIdle ==
    /\ wq_comments = << >>
    /\ wq_processed = {}
    /\ wq_in_progress = << >>
    /\ wq_ready = << >>
    /\ wq_manager = FALSE
    /\ wq_pc = "idle"
    /\ wq_ordered = << >>
    /\ wq_counts = [pr_comment |-> 0, in_progress |-> 0, ready |-> 0]
    /\ wq_ordered_keys = << >>
    /\ wq_queue = << >>

DelayIdle ==
    /\ rd_response = [present |-> FALSE]
    /\ rd_attempt = 0
    /\ rd_now = 0
    /\ rd_settings = [base |-> 1, max_delay |-> 1]
    /\ rd_pc = "idle"
    /\ rd_delay = 0
    /\ h_branch = "none"

ServiceIdle ==
    /\ sv_driver = << >>
    /\ sv_active = 0
    /\ sv_board = 0
    /\ sv_running = FALSE
    /\ sv_draining = FALSE
    /\ sv_sched = 0
    /\ sv_response = "none"
    /\ h_run_over_drain = FALSE

Init == PoolInit /\ NameInit /\ AdmitIdle /\ RetryIdle /\ WaitIdle
    /\ TasksIdle
    /\ ReclaimIdle
    /\ GraphIdle
    /\ TmuxIdle
    /\ ShutdownIdle
    /\ QueueIdle
    /\ DelayIdle
    /\ ServiceIdle

(* ------------------------------ drivers ------------------------------- *)
ActivePcs == {"fetch_ip", "fetch_ready", "build", "cleanup", "sleep"}

\* leaving run_until_empty runs its finally block (self._draining = False);
\* run_continuous has no finally
AfterExit(m, drn) == IF m = "drain" THEN FALSE ELSE drn

\* From the loop condition of run_until_empty / run_continuous up to the
\* first await inside process_work_queue, with drn, run, sp the current
\* values of _draining, _running and _session_processed.
LoopHead(d, m, drn, run, sp) ==
    LET flag == IF m = "drain" THEN drn ELSE run
        limit == max_issues_per_run
    IN IF ~flag
       THEN \* loop condition false: fall out of the loop, return normally
            /\ pc' = [pc EXCEPT ![d] = "returned"]
            /\ draining' = AfterExit(m, drn)
            /\ UNCHANGED <<phase, processed_at_entry>>
       ELSE IF fatal_error # NoError
       THEN \* raise RuntimeError(self._fatal_error); except: _set_fatal_error is a no-op
            /\ pc' = [pc EXCEPT ![d] = "raised"]
            /\ draining' = AfterExit(m, drn)
            /\ UNCHANGED <<phase, processed_at_entry>>
       ELSE IF limit > 0 /\ limit - sp <= 0
       THEN \* process_work_queue returns max_reached
            /\ pc' = [pc EXCEPT ![d] = IF m = "drain" THEN "returned" ELSE "cleanup"]
            /\ draining' = IF m = "drain" THEN FALSE ELSE drn
            /\ UNCHANGED <<phase, processed_at_entry>>
       ELSE \* await self._build_work_queue()
            /\ pc' = [pc EXCEPT ![d] = "fetch_ip"]
            /\ phase' = [phase EXCEPT ![d] = "pass"]
            /\ processed_at_entry' = [processed_at_entry EXCEPT ![d] = processed_issues]
            /\ draining' = drn

\* run_until_empty / run_continuous is called (service endpoint, scheduler,
\* CLI), for the first time or after the driver's previous call has ended
StartRun(d, m) ==
    /\ pc[d] \in {"idle", "returned", "raised"}
    /\ m = mode[d]
    /\ session_processed' = 0
    /\ running' = IF m = "continuous" THEN TRUE ELSE running
    /\ LoopHead(d, m, IF m = "drain" THEN TRUE ELSE draining, running', 0)
    /\ UNCHANGED <<slots, tasks, processed_issues, fatal_error,
                   completed_count, failed_count, max_issues_per_run, active_gauge,
                   ip_fetched, ready_fetched, spawned_total>>
    /\ UNCHANGED sideVars

\* asyncio.sleep(interval) returns
Wake(d) ==
    /\ pc[d] = "sleep"
    /\ LoopHead(d, mode[d], draining, running, session_processed)
    /\ UNCHANGED <<slots, tasks, processed_issues, fatal_error, running,
                   completed_count, failed_count, session_processed,
                   max_issues_per_run, active_gauge,
                   ip_fetched, ready_fetched, spawned_total>>
    /\ UNCHANGED sideVars

PrItem(issue, comment_id) == [issue |-> issue, key |-> PrCommentKey(issue, comment_id)]

\* the open pull requests with review comments: one, for acme/app#1
PrIssues == {i \in Items : i.repo_owner = "acme"}

\* what fetch_pr_comment_work_items can return: one work item per review
\* comment whose key is not processed yet
PrFetches(processed) ==
    {SelectSeq(fetched, LAMBDA it : it.key \notin processed) :
        fetched \in SeqUpTo({PrItem(i, c) : i \in PrIssues, c \in CommentIds}, 1)}

\* what a board fetch can hand on: the listed issues that pass the filter
\* "key not in self._processed_issues"
Fetches(processed) ==
    {NotProcessed(fetched, processed) : fetched \in SeqUpTo(Items, MaxFetch)}

\* fetch_pr_comment_work_items has returned and the board answers
\* fetch_in_progress_issues, which filters the list; the build goes on to
\* await fetch_ready_issues.  _build_work_queue never reads the PR-comment
\* items after line 410, so the model draws them where the queue is assembled.
FetchInProgress(d) ==
    /\ pc[d] = "fetch_ip"
    /\ \E in_progress \in Fetches(processed_issues) :
          ip_fetched' = [ip_fetched EXCEPT ![d] = in_progress]
    /\ pc' = [pc EXCEPT ![d] = "fetch_ready"]
    /\ UNCHANGED poolVars
    /\ UNCHANGED <<phase, ready_fetched>>
    /\ UNCHANGED histVars
    /\ UNCHANGED sideVars

\* the board answers fetch_ready_issues, which filters the list and then
\* awaits the blocker checks and the hydration of the issues it kept
FetchReady(d) ==
    /\ pc[d] = "fetch_ready"
    /\ \E ready \in Fetches(processed_issues) :
          ready_fetched' = [ready_fetched EXCEPT ![d] = ready]
    /\ pc' = [pc EXCEPT ![d] = "build"]
    /\ UNCHANGED poolVars
    /\ UNCHANGED <<phase, ip_fetched>>
    /\ UNCHANGED histVars
    /\ UNCHANGED sideVars

\* fetch_in_progress_issues / fetch_ready_issues raises ValueError: it leaves
\* process_work_queue (or the re-check build) and reaches the except clause
\* of the run loop, which latches the error and re-raises
FetchFail(d) ==
    /\ pc[d] \in {"fetch_ip", "fetch_ready", "build"}
    /\ LET fl == SetFatalError([fatal_error |-> fatal_error, running |-> running,
                                draining |-> draining], <<"ERROR", "fetch_failed">>)
       IN /\ fatal_error' = fl.fatal_error
          /\ running' = fl.running
          /\ draining' = AfterExit(mode[d], fl.draining)
    /\ pc' = [pc EXCEPT ![d] = "raised"]
    /\ ip_fetched' = [ip_fetched EXCEPT ![d] = << >>]
    /\ ready_fetched' = [ready_fetched EXCEPT ![d] = << >>]
    /\ UNCHANGED <<slots, tasks, processed_issues, completed_count,
                   failed_count, session_processed, max_issues_per_run, active_gauge,
                   spawned_total>>
    /\ phase' = [phase EXCEPT ![d] = "pass"]
    /\ processed_at_entry' = [processed_at_entry EXCEPT ![d] = {}]
    /\ UNCHANGED sideVars

\* a drain that never takes a pass for its last
DrainCheckNever(spawned, active_agents) == FALSE

\* the check of a pass that spawned nothing
DrainCheckSpawnedOnly(spawned, active_agents) == spawned = 0

\* run_until_empty: result["spawned"] == 0 and status.active_agents == 0
DrainCheck(spawned, active_agents) == spawned = 0 /\ active_agents = 0

\* fetch_ready_issues returns; _build_work_queue assembles the queue; then,
\* with no await in between, process_work_queue truncates it to the limit,
\* runs the spawn loop and returns to the run loop, which runs on to its
\* next await
ProcessWorkQueue(d) ==
    /\ pc[d] = "build"
    /\ \E pr_items \in PrFetches(processed_issues) :
        LET work_queue == BuildWorkQueue(pr_items, ip_fetched[d], ready_fetched[d])
            limit == max_issues_per_run
            cut == IF limit > 0
                   THEN PySlicePrefix(work_queue, limit - session_processed)
                   ELSE work_queue
            st0 == [slots |-> slots, tasks |-> tasks,
                    processed |-> processed_issues, spawned_total |-> spawned_total]
            acc0 == [st |-> st0, spawned |-> 0, skipped |-> 0]
            acc == IF phase[d] = "pass" /\ work_queue # << >>
                   THEN SpawnLoop(acc0, cut, 1)
                   ELSE acc0
        IN /\ acc.st.spawned_total <= MaxSpawns
           /\ slots' = acc.st.slots
           /\ tasks' = acc.st.tasks
           /\ processed_issues' = acc.st.processed
           /\ spawned_total' = acc.st.spawned_total
           /\ IF phase[d] = "recheck"
              THEN \* the double-check of run_until_empty
                   IF work_queue = << >>
                   THEN /\ pc' = [pc EXCEPT ![d] = "returned"]
                        /\ draining' = FALSE
                        /\ phase' = [phase EXCEPT ![d] = "pass"]
                        /\ processed_at_entry' = [processed_at_entry EXCEPT ![d] = {}]
                   ELSE /\ pc' = [pc EXCEPT ![d] = "cleanup"]
                        /\ phase' = [phase EXCEPT ![d] = "pass"]
                        /\ processed_at_entry' = [processed_at_entry EXCEPT ![d] = {}]
                        /\ UNCHANGED draining
              ELSE IF mode[d] = "continuous"
              THEN /\ pc' = [pc EXCEPT ![d] = "cleanup"]
                   /\ processed_at_entry' = [processed_at_entry EXCEPT ![d] = {}]
                   /\ UNCHANGED <<draining, phase>>
              ELSE IF fatal_error # NoError
              THEN /\ pc' = [pc EXCEPT ![d] = "raised"]
                   /\ draining' = FALSE
                   /\ processed_at_entry' = [processed_at_entry EXCEPT ![d] = {}]
                   /\ UNCHANGED phase
              ELSE IF DrainCheck(acc.spawned, ActiveAgents(acc.st.slots))
              THEN /\ pc' = [pc EXCEPT ![d] = "fetch_ip"]
                   /\ phase' = [phase EXCEPT ![d] = "recheck"]
                   /\ processed_at_entry' = [processed_at_entry EXCEPT ![d] = acc.st.processed]
                   /\ UNCHANGED draining
              ELSE /\ pc' = [pc EXCEPT ![d] = "cleanup"]
                   /\ processed_at_entry' = [processed_at_entry EXCEPT ![d] = {}]
                   /\ UNCHANGED <<draining, phase>>
    /\ ip_fetched' = [ip_fetched EXCEPT ![d] = << >>]
    /\ ready_fetched' = [ready_fetched EXCEPT ![d] = << >>]
    /\ UNCHANGED <<fatal_error, running, completed_count, failed_count,
                   session_processed, max_issues_per_run, active_gauge>>
    /\ UNCHANGED sideVars

\* _maybe_cleanup returns; the run loop checks the fatal error and sleeps
Cleanup(d) ==
    /\ pc[d] = "cleanup"
    /\ IF fatal_error # NoError
       THEN /\ pc' = [pc EXCEPT ![d] = "raised"]
            /\ draining' = AfterExit(mode[d], draining)
       ELSE /\ pc' = [pc EXCEPT ![d] = "sleep"]
            /\ UNCHANGED draining
    /\ UNCHANGED <<slots, tasks, processed_issues, fatal_error, running,
                   completed_count, failed_count, session_processed,
                   max_issues_per_run, active_gauge,
                   phase, ip_fetched, ready_fetched>>
    /\ UNCHANGED histVars
    /\ UNCHANGED sideVars

\* AgentPool.stop, called by POST /agents/stop
Stop ==
    /\ running \/ draining
    /\ running' = StopFlags.running
    /\ draining' = StopFlags.draining
    /\ UNCHANGED <<slots, tasks, processed_issues, fatal_error,
                   completed_count, failed_count, session_processed,
                   max_issues_per_run, active_gauge>>
    /\ UNCHANGED driverVars
    /\ UNCHANGED histVars
    /\ UNCHANGED sideVars

(* ------------------------------ workflows ----------------------------- *)
\* the task starts: _run_agent_for_issue up to "await graph.ainvoke"
WorkflowStart(t) ==
    /\ t \in tasks
    /\ t.pc = "created"
    /\ slots' = [slots EXCEPT ![t.slot].state = "running", ![t.slot].issue = t.issue]
    /\ active_gauge' = active_gauge + 1
    /\ tasks' = (tasks \ {t}) \cup {[t EXCEPT !.pc = "running"]}
    /\ UNCHANGED <<processed_issues, fatal_error, running, draining,
                   completed_count, failed_count, session_processed, max_issues_per_run>>
    /\ UNCHANGED driverVars
    /\ UNCHANGED histVars
    /\ UNCHANGED sideVars

\* graph.ainvoke returns or raises; the task runs to its end
WorkflowEnd(t, outcome) ==
    /\ t \in tasks
    /\ t.pc = "running"
    /\ LET w == RunAgentEnd([slots |-> slots, fatal_error |-> fatal_error,
                             running |-> running, draining |-> draining,
                             completed_count |-> completed_count,
                             failed_count |-> failed_count,
                             session_processed |-> session_processed,
                             active_gauge |-> active_gauge], t, outcome)
       IN /\ slots' = w.slots
          /\ fatal_error' = w.fatal_error
          /\ running' = w.running
          /\ draining' = w.draining
          /\ completed_count' = w.completed_count
          /\ failed_count' = w.failed_count
          /\ session_processed' = w.session_processed
          /\ active_gauge' = w.active_gauge
    /\ tasks' = tasks \ {t}
    /\ UNCHANGED <<processed_issues, max_issues_per_run>>
    /\ UNCHANGED driverVars
    /\ UNCHANGED <<spawned_total, processed_at_entry>>
    /\ UNCHANGED sideVars

(* ------------------------------- Spec --------------------------------- *)
Next ==
    \/ \E d \in Drivers : StartRun(d, mode[d])
    \/ \E d \in Drivers : Wake(d)
    \/ \E d \in Drivers : FetchInProgress(d)
    \/ \E d \in Drivers : FetchFail(d)
    \/ \E d \in Drivers : FetchReady(d)
    \/ \E d \in Drivers : ProcessWorkQueue(d)
    \/ \E d \in Drivers : Cleanup(d)
    \/ Stop
    \/ \E t \in tasks : WorkflowStart(t)
    \/ \E t \in tasks, o \in Outcomes : WorkflowEnd(t, o)

Spec == Init /\ [][Next]_vars

TypeOK ==
    /\ \A s \in SlotIds : slots[s].state \in {"idle", "running"}
    /\ processed_issues \subseteq AllKeys
    /\ active_gauge \in Int


(* ----------------------- one run under a limit ------------------------ *)
\* AgentPool.set_max_issues_per_run, called by scripts/run_agent_pool.py
\* before it starts the run: self.max_issues_per_run = max(0, limit)
SetMaxIssuesPerRun(limit) ==
    /\ \A d \in Drivers : pc[d] = "idle"
    /\ max_issues_per_run = DefaultMaxIssuesPerRun
    /\ max_issues_per_run' = IF limit > 0 THEN limit ELSE 0
    /\ UNCHANGED <<slots, tasks, processed_issues, fatal_error, running,
                   draining, completed_count, failed_count, session_processed,
                   active_gauge>>
    /\ UNCHANGED driverVars
    /\ UNCHANGED histVars
    /\ UNCHANGED sideVars

\* the only run of the process: run_until_empty or run_continuous is called
\* once, on a pool no driver has used
StartOnlyRun(d) ==
    /\ \A e \in Drivers : pc[e] = "idle"
    /\ StartRun(d, mode[d])

NextLimit ==
    \/ \E limit \in (-1)..MaxLimit : SetMaxIssuesPerRun(limit)
    \/ \E d \in Drivers : StartOnlyRun(d)
    \/ \E d \in Drivers : Wake(d)
    \/ \E d \in Drivers : FetchInProgress(d)
    \/ \E d \in Drivers : FetchFail(d)
    \/ \E d \in Drivers : FetchReady(d)
    \/ \E d \in Drivers : ProcessWorkQueue(d)
    \/ \E d \in Drivers : Cleanup(d)
    \/ Stop
    \/ \E t \in tasks : WorkflowStart(t)
    \/ \E t \in tasks, o \in Outcomes : WorkflowEnd(t, o)

SpecLimit == Init /\ [][NextLimit]_vars

(* --------------------------- admission filter ------------------------- *)
\* One issue of the board goes through fetch_in_progress_issues or
\* fetch_ready_issues and _build_work_queue.  Every await of those functions
\* ends a step; between two steps the issue can be relabelled on GitHub.

LocalLabel == "agent:local"
RemoteLabel == "agent:remote"
AgentLabels == {LocalLabel, RemoteLabel}
Targets == {"local", "remote", "any"}
StatusDone == "Done"
NoStatus == "none"
ProjectStatuses == {"Ready", "In progress", StatusDone, NoStatus}
BlockerNumbers == 1..MaxBlockers
NoCand == << >>

\* ProjectsV2Client.get_issue_project_status: the status the blocker has on
\* the project board, None when it has none
GetIssueProjectStatus(blocker) == board_status[blocker]

\* AgentPool._matches_target
MatchesTarget(issue) ==
    IF target = "any" THEN TRUE
    ELSE IF target = "local" THEN LocalLabel \in issue.labels
    ELSE IF target = "remote" THEN RemoteLabel \in issue.labels
    ELSE TRUE

\* AgentPool._filter_actionable on a one-element list: is the issue kept?
FilterActionable(issue) == \E label \in AgentLabels : label \in issue.labels

\* AgentPool._fetch_blockers_via_appforge_mcp
FetchBlockers(issue) == IF ~issue.has_repo THEN {} ELSE board_blockers

\* a status that is neither missing nor Done blocks
HasBlockersNotDoneIgnoringNone(issue) ==
    IF ~issue.has_repo THEN FALSE
    ELSE IF FetchBlockers(issue) = {} THEN FALSE
    ELSE \E b \in FetchBlockers(issue) :
            GetIssueProjectStatus(b) \notin {StatusDone, NoStatus}

\* AgentPool._has_blockers_not_done
HasBlockersNotDone(issue) ==
    IF ~issue.has_repo THEN FALSE
    ELSE IF FetchBlockers(issue) = {} THEN FALSE
    ELSE \E b \in FetchBlockers(issue) : GetIssueProjectStatus(b) # StatusDone

\* AgentPool._hydrate_issue: the issue read again from GitHub, the issue as
\* it was when the read fails
HydrateIssue(issue, ok) ==
    IF ~issue.has_repo \/ ~ok THEN issue
    ELSE [issue EXCEPT !.labels = board_labels, !.assignee = board_assignee]

\* the Issue list_issues_by_project_status builds from a project item
ListedIssue(kind) ==
    [kind |-> kind, labels |-> board_labels, assignee |-> FALSE, has_repo |-> TRUE]

AdmitInit ==
    /\ PoolInit
    /\ NameInit
    /\ RetryIdle
    /\ WaitIdle
    /\ target \in Targets
    /\ board_labels \in SUBSET AgentLabels
    /\ board_blockers \in SUBSET BlockerNumbers
    /\ board_status \in [BlockerNumbers -> ProjectStatuses]
    /\ board_assignee \in BOOLEAN
    /\ cand = NoCand
    /\ admit_pc = "idle"
    /\ admit_queue = << >>
    /\ TasksIdle
    /\ ReclaimIdle
    /\ GraphIdle
    /\ TmuxIdle
    /\ ShutdownIdle
    /\ QueueIdle
    /\ DelayIdle
    /\ ServiceIdle

AdmitFrame == UNCHANGED <<poolVars, driverVars, histVars, nameVars, retryVars,
                          waitVars, waitHist>>
    /\ UNCHANGED taskVars
    /\ UNCHANGED reclaimVars
    /\ UNCHANGED graphVars
    /\ UNCHANGED tmuxVars
    /\ UNCHANGED shutdownVars
    /\ UNCHANGED queueVars
    /\ UNCHANGED delayVars
    /\ UNCHANGED serviceVars
BoardFrame == UNCHANGED <<target, board_blockers, board_status, board_assignee>>

Drop ==
    /\ cand' = NoCand
    /\ admit_pc' = "done"
    /\ UNCHANGED admit_queue

Admit(issue) ==
    /\ cand' = NoCand
    /\ admit_pc' = "done"
    /\ admit_queue' = Append(admit_queue, issue)

\* somebody changes the labels of the issue on GitHub
Relabel(labels) ==
    /\ admit_pc \notin {"idle", "done"}
    /\ labels # board_labels
    /\ board_labels' = labels
    /\ UNCHANGED <<cand, admit_pc, admit_queue>>
    /\ BoardFrame /\ AdmitFrame

\* fetch_ready_issues up to its first blocker check: the listing and the
\* target filter
ListReady ==
    /\ admit_pc = "idle"
    /\ IF MatchesTarget(ListedIssue("ready"))
       THEN /\ cand' = ListedIssue("ready")
            /\ admit_pc' = "ready_blockers"
            /\ UNCHANGED admit_queue
       ELSE Drop
    /\ UNCHANGED board_labels /\ BoardFrame /\ AdmitFrame

\* fetch_ready_issues: the blocker check of the issue
ReadyBlockers ==
    /\ admit_pc = "ready_blockers"
    /\ IF HasBlockersNotDone(cand)
       THEN Drop
       ELSE /\ admit_pc' = "ready_hydrate"
            /\ UNCHANGED <<cand, admit_queue>>
    /\ UNCHANGED board_labels /\ BoardFrame /\ AdmitFrame

\* fetch_ready_issues from _hydrate_issues to its return, and the
\* _filter_actionable of _build_work_queue; selected is the manager's choice
ReadyHydrate(ok, selected) ==
    /\ admit_pc = "ready_hydrate"
    /\ LET full == HydrateIssue(cand, ok)
       IN  IF selected /\ FilterActionable(full) THEN Admit(full) ELSE Drop
    /\ UNCHANGED board_labels /\ BoardFrame /\ AdmitFrame

\* fetch_in_progress_issues: the listing
ListInProgress ==
    /\ admit_pc = "idle"
    /\ cand' = ListedIssue("in_progress")
    /\ admit_pc' = "ip_hydrate"
    /\ UNCHANGED admit_queue
    /\ UNCHANGED board_labels /\ BoardFrame /\ AdmitFrame

\* fetch_in_progress_issues from _hydrate_issues to the blocker check
InProgressHydrate(ok) ==
    /\ admit_pc = "ip_hydrate"
    /\ LET full == HydrateIssue(cand, ok)
       IN  IF MatchesTarget(full) /\ FilterActionable(full)
           THEN /\ cand' = full
                /\ admit_pc' = "ip_blockers"
                /\ UNCHANGED admit_queue
           ELSE Drop
    /\ UNCHANGED board_labels /\ BoardFrame /\ AdmitFrame

\* fetch_in_progress_issues from the blocker check to its return, and the
\* _filter_actionable of _build_work_queue
InProgressBlockers(selected) ==
    /\ admit_pc = "ip_blockers"
    /\ IF HasBlockersNotDone(cand) \/ cand.assignee
       THEN Drop
       ELSE IF selected /\ FilterActionable(cand) THEN Admit(cand) ELSE Drop
    /\ UNCHANGED board_labels /\ BoardFrame /\ AdmitFrame

NextAdmit ==
    \/ ListReady
    \/ ReadyBlockers
    \/ \E ok \in BOOLEAN, selected \in BOOLEAN : ReadyHydrate(ok, selected)
    \/ ListInProgress
    \/ \E ok \in BOOLEAN : InProgressHydrate(ok)
    \/ \E selected \in BOOLEAN : InProgressBlockers(selected)
    \/ \E labels \in SUBSET AgentLabels : Relabel(labels)

SpecAdmit == AdmitInit /\ [][NextAdmit]_vars

(* ----------------------------- API client ----------------------------- *)
\* One call of GitHubAPIClient: rest_get / rest_post / rest_patch /
\* rest_delete ("rest") or graphql.  A step runs from the completion of one
\* await (client.request, asyncio.sleep) to the next.

StatusCodes == {200, 400, 401, 403, 404, 422, 429, 500, 502, 503, 504}
\* values of the header X-RateLimit-Remaining ("absent": no such header)
RemainingValues == {"absent", "0", "5"}
\* the errors member of a GraphQL reply
GraphqlBodies == {"data", "rate_limit", "errors"}
Responses == [type : {"response"}, status : StatusCodes,
              remaining : RemainingValues, retry_after : BOOLEAN,
              body : GraphqlBodies]
TransportError == [type |-> "transport_error"]
NoReply == << >>

\* a 403 is always worth another request
ShouldRetryAny403(response) ==
    \/ response.status \in {429, 500, 502, 503, 504}
    \/ response.status = 403

\* GitHubAPIClient._should_retry
ShouldRetry(response) ==
    IF response.status \in {429, 500, 502, 503, 504} THEN TRUE
    ELSE IF response.status = 403
         THEN IF response.remaining = "0" THEN TRUE
              ELSE IF response.retry_after THEN TRUE
              ELSE FALSE
    ELSE FALSE

\* GitHubAPIClient._is_graphql_rate_limited
IsGraphqlRateLimited(response) == response.body = "rate_limit"

RetryInit ==
    /\ PoolInit
    /\ NameInit
    /\ AdmitIdle
    /\ WaitIdle
    /\ max_retries \in 0..MaxRetries
    /\ call_kind = "none"
    /\ retry_pc = "idle"
    /\ attempt = 0
    /\ gql_attempt = 0
    /\ requests_sent = 0
    /\ last_reply = NoReply
    /\ call_result = "none"
    /\ TasksIdle
    /\ ReclaimIdle
    /\ GraphIdle
    /\ TmuxIdle
    /\ ShutdownIdle
    /\ QueueIdle
    /\ DelayIdle
    /\ ServiceIdle

RetryFrame == UNCHANGED <<poolVars, driverVars, histVars, nameVars, admitVars,
                          waitVars, waitHist>>
    /\ UNCHANGED taskVars
    /\ UNCHANGED reclaimVars
    /\ UNCHANGED graphVars
    /\ UNCHANGED tmuxVars
    /\ UNCHANGED shutdownVars
    /\ UNCHANGED queueVars
    /\ UNCHANGED delayVars
    /\ UNCHANGED serviceVars

\* rest_get, rest_post, rest_patch, rest_delete or graphql is called; the
\* first request of _request is on its way
StartCall(kind) ==
    /\ retry_pc = "idle"
    /\ call_kind' = kind
    /\ retry_pc' = "request"
    /\ attempt' = 0
    /\ gql_attempt' = 0
    /\ UNCHANGED <<max_retries, requests_sent, last_reply, call_result>>
    /\ RetryFrame

\* how the call ends
EndCall(result) ==
    /\ retry_pc' = "done"
    /\ call_result' = result
    /\ UNCHANGED <<attempt, gql_attempt>>

\* _request returned the response to rest_* or to graphql: raise_for_status,
\* and for graphql the errors of the reply
HandleResponse(response) ==
    IF response.status >= 400 THEN EndCall("http_status_error")
    ELSE IF call_kind = "rest" THEN EndCall("returned")
    ELSE IF response.body = "data" THEN EndCall("returned")
    ELSE IF IsGraphqlRateLimited(response)
         THEN IF gql_attempt >= max_retries
              THEN EndCall("graphql_rate_limit_exceeded")
              ELSE /\ retry_pc' = "graphql_sleep"
                   /\ gql_attempt' = gql_attempt + 1
                   /\ UNCHANGED <<attempt, call_result>>
    ELSE EndCall("graphql_errors")

\* client.request raised httpx.TransportError
RequestFails ==
    /\ retry_pc = "request"
    /\ requests_sent' = requests_sent + 1
    /\ last_reply' = TransportError
    /\ IF attempt >= max_retries
       THEN EndCall("transport_error")
       ELSE /\ retry_pc' = "sleep"
            /\ attempt' = attempt + 1
            /\ UNCHANGED <<gql_attempt, call_result>>
    /\ UNCHANGED <<max_retries, call_kind>>
    /\ RetryFrame

\* client.request returned a response
RequestReturns(response) ==
    /\ retry_pc = "request"
    /\ requests_sent' = requests_sent + 1
    /\ last_reply' = response
    /\ IF response.status >= 400 /\ ShouldRetry(response)
       THEN IF attempt >= max_retries
            THEN HandleResponse(response)
            ELSE /\ retry_pc' = "sleep"
                 /\ attempt' = attempt + 1
                 /\ UNCHANGED <<gql_attempt, call_result>>
       ELSE HandleResponse(response)
    /\ UNCHANGED <<max_retries, call_kind>>
    /\ RetryFrame

\* asyncio.sleep(delay) of _request is over: the next request goes out
RetrySleepEnds ==
    /\ retry_pc = "sleep"
    /\ retry_pc' = "request"
    /\ UNCHANGED <<max_retries, call_kind, attempt, gql_attempt, requests_sent,
                   last_reply, call_result>>
    /\ RetryFrame

\* asyncio.sleep(delay) of graphql is over: graphql calls _request again
GraphqlSleepEnds ==
    /\ retry_pc = "graphql_sleep"
    /\ retry_pc' = "request"
    /\ attempt' = 0
    /\ UNCHANGED <<max_retries, call_kind, gql_attempt, requests_sent,
                   last_reply, call_result>>
    /\ RetryFrame

NextRetry ==
    \/ \E kind \in {"rest", "graphql"} : StartCall(kind)
    \/ RequestFails
    \/ \E response \in Responses : RequestReturns(response)
    \/ RetrySleepEnds
    \/ GraphqlSleepEnds

SpecRetry == RetryInit /\ [][NextRetry]_vars

(* -------------------------- done-marker wait -------------------------- *)
\* run_agent of orchestration/graph.py from its restart loop on, for one
\* task: agent.run, then _wait_for_done_marker_with_nudges (or
\* TaskManager.wait_for_done_marker when the agent names no session) and the
\* handling of its result.  Time is counted in ticks; asyncio.sleep ends
\* after any number of ticks.

Settings == [task_nudge_enabled : BOOLEAN,
             task_nudge_after_seconds : {0, 2},
             task_nudge_interval_seconds : {1, 2},
             task_nudge_max_attempts : 0..MaxNudgeAttempts,
             task_nudge_max_restarts : 0..MaxNudgeRestarts,
             task_wait_timeout_seconds : {0, 4}]

\* what progress_signature returns when git fails: the empty string
EmptySignature == 0

\* TaskManager.progress_signature
ProgressSignature(readable) == IF readable THEN repo_signature ELSE EmptySignature

\* the first condition of the wait loop: nudging is on and nothing moved
\* for task_nudge_after_seconds
NudgeWindowOpen(idle) ==
    /\ session_name
    /\ cfg.task_nudge_enabled
    /\ cfg.task_nudge_after_seconds > 0
    /\ idle >= cfg.task_nudge_after_seconds

\* the wait loop: the nudges are used up
NudgesExhausted(count) ==
    /\ cfg.task_nudge_max_attempts > 0
    /\ count >= cfg.task_nudge_max_attempts

\* every poll may nudge
NudgeSpacingNone(since) == TRUE

\* the wait loop: no nudge yet, or task_nudge_interval_seconds since the last
NudgeSpacingOk(since) ==
    \/ last_nudge_time = 0
    \/ since >= cfg.task_nudge_interval_seconds

\* a timeout of 0 is a timeout at once
TimedOutNoZeroCheck(elapsed) == elapsed >= cfg.task_wait_timeout_seconds

\* run_agent and the wait loop: timeout_seconds is set, positive and reached
TimedOut(elapsed) ==
    /\ cfg.task_wait_timeout_seconds > 0
    /\ elapsed >= cfg.task_wait_timeout_seconds

\* one restart too many
RestartAllowedOneMore(attempts) ==
    attempts <= cfg.task_nudge_max_restarts /\ session_name

\* run_agent: restart_attempts < settings.task_nudge_max_restarts and session_name
RestartAllowed(attempts) ==
    attempts < cfg.task_nudge_max_restarts /\ session_name

WaitInit ==
    /\ PoolInit
    /\ NameInit
    /\ AdmitIdle
    /\ RetryIdle
    /\ cfg \in Settings
    /\ now = 1
    /\ session_alive = FALSE
    /\ done_marker = FALSE
    /\ repo_signature = 1
    /\ wait_pc = "agent_run"
    /\ session_name = FALSE
    /\ restart_attempts = 0
    /\ agent_result = "none"
    /\ wait_status = "none"
    /\ start_time = 0
    /\ last_progress_time = 0
    /\ last_nudge_time = 0
    /\ nudge_count = 0
    /\ last_signature = EmptySignature
    /\ h_seen_signature = EmptySignature
    /\ h_progress = 0
    /\ h_sent = 0
    /\ h_last_nudge = 0
    /\ h_prev_nudge = 0
    /\ h_nudge_idle = 0
    /\ h_total_nudges = 0
    /\ h_restarts = 0
    /\ h_session_lost = FALSE
    /\ TasksIdle
    /\ ReclaimIdle
    /\ GraphIdle
    /\ TmuxIdle
    /\ ShutdownIdle
    /\ QueueIdle
    /\ DelayIdle
    /\ ServiceIdle

WaitFrame == UNCHANGED <<poolVars, driverVars, histVars, nameVars, admitVars,
                         retryVars>>
    /\ UNCHANGED taskVars
    /\ UNCHANGED reclaimVars
    /\ UNCHANGED graphVars
    /\ UNCHANGED tmuxVars
    /\ UNCHANGED shutdownVars
    /\ UNCHANGED queueVars
    /\ UNCHANGED delayVars
    /\ UNCHANGED serviceVars
LoopLocals == <<start_time, last_progress_time, last_nudge_time, nudge_count,
                last_signature>>
LoopHist == <<h_seen_signature, h_progress, h_sent, h_last_nudge, h_prev_nudge,
              h_nudge_idle>>

\* agent.run returned; on success the wait loop is entered and reads the
\* signature for the first time
AgentRun(ok, named, readable) ==
    /\ wait_pc = "agent_run"
    /\ IF ok
       THEN /\ agent_result' = "success"
            /\ session_name' = named
            /\ session_alive' = named
            /\ wait_pc' = "waiting"
            /\ start_time' = now
            /\ last_progress_time' = now
            /\ last_nudge_time' = 0
            /\ nudge_count' = 0
            /\ last_signature' = ProgressSignature(readable)
            /\ h_seen_signature' = ProgressSignature(readable)
            /\ h_progress' = now
            /\ h_sent' = 0
            /\ h_last_nudge' = 0
            /\ h_prev_nudge' = 0
            /\ h_nudge_idle' = 0
            /\ h_session_lost' = FALSE
       ELSE /\ agent_result' = "agent_failed"
            /\ wait_pc' = "ended"
            /\ UNCHANGED <<session_name, session_alive, h_session_lost>>
            /\ UNCHANGED LoopLocals /\ UNCHANGED LoopHist
    /\ UNCHANGED <<cfg, now, done_marker, repo_signature, restart_attempts,
                   wait_status, h_total_nudges, h_restarts>>
    /\ WaitFrame

\* run_agent after the wait returned status
HandleWaitStatus(status) ==
    /\ wait_status' = status
    /\ IF status = "done"
       THEN /\ wait_pc' = "ended"
            /\ UNCHANGED <<agent_result, restart_attempts, session_alive, h_restarts>>
       ELSE IF status = "nudge_exceeded"
       THEN IF RestartAllowed(restart_attempts)
            THEN /\ session_alive' = FALSE
                 /\ restart_attempts' = restart_attempts + 1
                 /\ h_restarts' = h_restarts + 1
                 /\ wait_pc' = "agent_run"
                 /\ UNCHANGED agent_result
            ELSE /\ agent_result' = "task_nudge_exceeded"
                 /\ wait_pc' = "ended"
                 /\ UNCHANGED <<restart_attempts, session_alive, h_restarts>>
       ELSE /\ agent_result' = "task_wait_timeout"
            /\ wait_pc' = "ended"
            /\ UNCHANGED <<restart_attempts, session_alive, h_restarts>>

\* one iteration of _wait_for_done_marker_with_nudges, from the end of its
\* sleep to the next sleep or to its return, and run_agent's handling of
\* the status it returns
WaitPoll(readable) ==
    /\ wait_pc = "waiting"
    /\ session_name
    /\ LET signature == ProgressSignature(readable)
           changed == signature # EmptySignature /\ signature # last_signature
           progress_time == IF changed THEN now ELSE last_progress_time
           count == IF changed THEN 0 ELSE nudge_count
           window == NudgeWindowOpen(now - progress_time)
           exceeded == window /\ NudgesExhausted(count)
           due == window /\ ~exceeded /\ NudgeSpacingOk(now - last_nudge_time)
           missing == due /\ ~session_alive
           nudged == due /\ session_alive
           timeout == TimedOut(now - start_time)
           h_changed == signature # EmptySignature /\ signature # h_seen_signature
           h_base == IF h_changed THEN 0 ELSE h_sent
           h_since == IF h_changed THEN now ELSE h_progress
       IN  IF done_marker
           THEN /\ HandleWaitStatus("done")
                /\ UNCHANGED LoopLocals /\ UNCHANGED LoopHist
                /\ UNCHANGED h_total_nudges
           ELSE /\ last_signature' = IF changed THEN signature ELSE last_signature
                /\ last_progress_time' = progress_time
                /\ nudge_count' = IF nudged THEN count + 1 ELSE count
                /\ last_nudge_time' = IF nudged THEN now ELSE last_nudge_time
                /\ UNCHANGED start_time
                /\ h_seen_signature' = IF h_changed THEN signature ELSE h_seen_signature
                /\ h_progress' = h_since
                /\ h_sent' = IF nudged THEN h_base + 1 ELSE h_base
                /\ h_last_nudge' = IF nudged THEN now ELSE h_last_nudge
                /\ h_prev_nudge' = IF nudged THEN h_last_nudge ELSE h_prev_nudge
                /\ h_nudge_idle' = IF nudged THEN now - h_since ELSE h_nudge_idle
                /\ h_total_nudges' = IF nudged THEN h_total_nudges + 1 ELSE h_total_nudges
                /\ IF exceeded \/ missing THEN HandleWaitStatus("nudge_exceeded")
                   ELSE IF timeout THEN HandleWaitStatus("timeout")
                   ELSE UNCHANGED <<wait_pc, wait_status, agent_result,
                                    restart_attempts, session_alive, h_restarts>>
    /\ UNCHANGED <<cfg, now, done_marker, repo_signature, session_name, h_session_lost>>
    /\ WaitFrame

\* one iteration of TaskManager.wait_for_done_marker, for an agent without a
\* session, and run_agent's handling of what it returns
PlainPoll ==
    /\ wait_pc = "waiting"
    /\ ~session_name
    /\ IF done_marker THEN HandleWaitStatus("done")
       ELSE IF TimedOut(now - start_time) THEN HandleWaitStatus("timeout")
       ELSE UNCHANGED <<wait_pc, wait_status, agent_result, restart_attempts,
                        session_alive, h_restarts>>
    /\ UNCHANGED <<cfg, now, done_marker, repo_signature, session_name,
                   h_total_nudges, h_session_lost>>
    /\ UNCHANGED LoopLocals /\ UNCHANGED LoopHist
    /\ WaitFrame

WorldFrame ==
    /\ UNCHANGED <<cfg, wait_pc, session_name, restart_attempts, agent_result,
                   wait_status, h_total_nudges, h_restarts>>
    /\ UNCHANGED LoopLocals /\ UNCHANGED LoopHist
    /\ WaitFrame

\* a tick of the clock while the coroutine sleeps
Tick ==
    /\ wait_pc = "waiting"
    /\ now < MaxTime
    /\ now' = now + 1
    /\ UNCHANGED <<session_alive, done_marker, repo_signature, h_session_lost>>
    /\ WorldFrame

\* the tmux session of the item ends
SessionDies ==
    /\ wait_pc = "waiting"
    /\ session_alive
    /\ session_alive' = FALSE
    /\ h_session_lost' = TRUE
    /\ UNCHANGED <<now, done_marker, repo_signature>>
    /\ WorldFrame

\* the agent writes ACE_TASK_DONE.json
MarkerAppears ==
    /\ wait_pc = "waiting"
    /\ session_alive \/ ~session_name
    /\ ~done_marker
    /\ done_marker' = TRUE
    /\ UNCHANGED <<now, session_alive, repo_signature, h_session_lost>>
    /\ WorldFrame

\* the agent changes the worktree
WorktreeChanges ==
    /\ wait_pc = "waiting"
    /\ session_alive \/ ~session_name
    /\ repo_signature < MaxSignature
    /\ repo_signature' = repo_signature + 1
    /\ UNCHANGED <<now, session_alive, done_marker, h_session_lost>>
    /\ WorldFrame

NextWait ==
    \/ \E ok \in BOOLEAN, named \in BOOLEAN, readable \in BOOLEAN :
          AgentRun(ok, named, readable)
    \/ \E readable \in BOOLEAN : WaitPoll(readable)
    \/ PlainPoll
    \/ Tick
    \/ SessionDies
    \/ MarkerAppears
    \/ WorktreeChanges

SpecWait == WaitInit /\ [][NextWait]_vars

(* ------------------------ the end of a workflow ----------------------- *)
\* The nodes after run_agent (evaluate_result, open_pr / post_failure /
\* handle_blocked, mark_done) and the finally block of
\* AgentPool._run_agent_for_issue: the workflow is over and its slot idle.
\* None of them touches the tmux session.
FinishWorkflow ==
    /\ wait_pc = "ended"
    /\ wait_pc' = "finished"
    /\ UNCHANGED <<cfg, now, session_alive, done_marker, repo_signature,
                   session_name, restart_attempts, agent_result, wait_status>>
    /\ UNCHANGED LoopLocals /\ UNCHANGED waitHist
    /\ WaitFrame

NextSession == NextWait \/ FinishWorkflow

SpecSession == WaitInit /\ [][NextSession]_vars

(* --------------------------- task loop -------------------------------- *)
\* One item's run_agent task loop with the done marker and the task plan,
\* both files of the worktree that outlive a run.
\* what ACE_TASK_DONE.json can hold: nothing (no file), text that is not
\* JSON, the empty object, an object without task_id, an object naming a task
\* the plan does not have, and an object naming a plan task whose completion
\* passes ("valid") or fails ("invalid") _validate_completion
MarkerFiles ==
    {[kind |-> k, task_id |-> 0] :
        k \in {"none", "malformed", "empty", "no_task_id", "unknown_task"}}
    \cup {[kind |-> k, task_id |-> t] : k \in {"valid", "invalid"}, t \in TaskIds}

\* TaskManager._read_done_marker: None when the file is missing or does not
\* parse, the parsed object otherwise
ReadDoneMarker(file) ==
    IF file.kind \in {"none", "malformed"} THEN NoMarker ELSE file

\* Python truth value of what _read_done_marker returned: None and {} are false
Truthy(marker) == marker.kind \notin {"none", "empty"}

\* TaskManager.apply_done_marker: returns None ("none"), raises
\* TaskValidationError ("raise") or completes the task and unlinks the file
ApplyDoneMarker(file, statuses) ==
    LET marker == ReadDoneMarker(file) IN
    IF ~Truthy(marker) THEN [outcome |-> "none", tasks |-> statuses, file |-> file]
    ELSE IF marker.task_id \notin DOMAIN statuses
        THEN [outcome |-> "none", tasks |-> statuses, file |-> file]
    ELSE IF marker.kind = "invalid"
        THEN [outcome |-> "raise", tasks |-> statuses, file |-> file]
    ELSE [outcome |-> "done",
          tasks |-> [statuses EXCEPT ![marker.task_id] = "done"],
          file |-> NoMarker]

\* TaskManager.current_task: the first in_progress task, else the first
\* pending one, else None (0)
CurrentTask(statuses) ==
    IF \E t \in DOMAIN statuses : statuses[t] = "in_progress"
        THEN CHOOSE t \in DOMAIN statuses :
                /\ statuses[t] = "in_progress"
                /\ \A u \in DOMAIN statuses : statuses[u] = "in_progress" => t <= u
    ELSE IF \E t \in DOMAIN statuses : statuses[t] = "pending"
        THEN CHOOSE t \in DOMAIN statuses :
                /\ statuses[t] = "pending"
                /\ \A u \in DOMAIN statuses : statuses[u] = "pending" => t <= u
    ELSE 0

\* a file that exists and that the workflow cannot use as a completion
UnusableMarker(file) == file.kind \in {"malformed", "empty", "invalid"}

TasksInit ==
    /\ PoolInit /\ NameInit /\ AdmitIdle /\ RetryIdle /\ WaitIdle
    /\ marker_file = NoMarker
    /\ plan = [t \in TaskIds |-> "pending"]
    /\ plan_pr_url = FALSE
    /\ auto_advance \in BOOLEAN
    /\ task_pc = "apply"
    /\ task_result = "none"
    /\ h_bad_read = FALSE
    /\ h_end_marker = NoMarker
    /\ ReclaimIdle
    /\ GraphIdle
    /\ TmuxIdle
    /\ ShutdownIdle
    /\ QueueIdle
    /\ DelayIdle
    /\ ServiceIdle

TasksFrame == UNCHANGED <<poolVars, driverVars, histVars, nameVars, admitVars,
                          retryVars, waitVars, waitHist>>
    /\ UNCHANGED reclaimVars
    /\ UNCHANGED graphVars
    /\ UNCHANGED tmuxVars
    /\ UNCHANGED shutdownVars
    /\ UNCHANGED queueVars
    /\ UNCHANGED delayVars
    /\ UNCHANGED serviceVars

\* run_agent returns state with the given result; file is the marker file
\* at that moment
ReturnResult(result, file) ==
    /\ task_pc' = "returned"
    /\ task_result' = result
    /\ h_end_marker' = file

\* top of the task loop: apply_done_marker, then current_task; with no task
\* left the pull request is opened (pr_ok: create_pull_request succeeds)
ApplyStep(pr_ok) ==
    /\ task_pc = "apply"
    /\ LET r == ApplyDoneMarker(marker_file, plan)
           cur == CurrentTask(r.tasks)
       IN
       /\ h_bad_read' = (h_bad_read \/ UnusableMarker(marker_file))
       /\ marker_file' = r.file
       /\ IF r.outcome = "raise"
            THEN /\ ReturnResult("success", r.file)
                 /\ UNCHANGED <<plan, plan_pr_url>>
          ELSE IF cur = 0
            THEN /\ plan' = r.tasks
                 /\ IF plan_pr_url
                      THEN ReturnResult("success", r.file) /\ UNCHANGED plan_pr_url
                    ELSE IF pr_ok
                      THEN ReturnResult("success", r.file) /\ plan_pr_url' = TRUE
                    ELSE ReturnResult("pr_creation_failed", r.file)
                         /\ UNCHANGED plan_pr_url
          ELSE /\ plan' = [r.tasks EXCEPT ![cur] = "in_progress"]
               /\ task_pc' = "agent_run"
               /\ task_result' = "none"
               /\ UNCHANGED <<plan_pr_url, h_end_marker>>
    /\ UNCHANGED auto_advance
    /\ TasksFrame

\* agent.run for the current task: a failed result, or without auto_advance
\* any result, ends the run; otherwise the wait for the marker starts
TaskAgentRun(ok) ==
    /\ task_pc = "agent_run"
    /\ IF ~ok THEN ReturnResult("agent_failed", marker_file)
       ELSE IF ~auto_advance THEN ReturnResult("success", marker_file)
       ELSE /\ task_pc' = "waiting"
            /\ task_result' = "success"
            /\ UNCHANGED h_end_marker
    /\ UNCHANGED <<marker_file, plan, plan_pr_url, auto_advance, h_bad_read>>
    /\ TasksFrame

\* one poll of _wait_for_task_completion as the task loop sees it: a true
\* marker ends the wait with "done"; otherwise the wait sleeps, gives up with
\* a failed result, or (outcome "restart") the session is restarted
TaskWaitPoll(outcome) ==
    /\ task_pc = "waiting"
    /\ h_bad_read' = (h_bad_read \/ UnusableMarker(marker_file))
    /\ UNCHANGED <<marker_file, plan, plan_pr_url, auto_advance>>
    /\ IF Truthy(ReadDoneMarker(marker_file))
         THEN /\ task_pc' = "apply"
              /\ UNCHANGED <<task_result, h_end_marker>>
       ELSE IF outcome = "sleep"
         THEN UNCHANGED <<task_pc, task_result, h_end_marker>>
       ELSE IF outcome = "restart"
         THEN /\ task_pc' = "agent_run"
              /\ UNCHANGED <<task_result, h_end_marker>>
       ELSE ReturnResult(outcome, marker_file)
    /\ TasksFrame

\* the agent in the session, which outlives the run, writes the marker file
WriteMarker(file) ==
    /\ task_pc \in {"waiting", "returned"}
    /\ marker_file' = file
    /\ UNCHANGED <<plan, plan_pr_url, auto_advance, task_pc, task_result,
                   h_bad_read, h_end_marker>>
    /\ TasksFrame

\* the item is picked up again: load_or_create_plan loads the saved plan
RerunItem ==
    /\ task_pc = "returned"
    /\ task_pc' = "apply"
    /\ task_result' = "none"
    /\ h_bad_read' = FALSE
    /\ h_end_marker' = NoMarker
    /\ UNCHANGED <<marker_file, plan, plan_pr_url, auto_advance>>
    /\ TasksFrame

NextTasks ==
    \/ \E pr_ok \in BOOLEAN : ApplyStep(pr_ok)
    \/ \E ok \in BOOLEAN : TaskAgentRun(ok)
    \/ \E outcome \in {"sleep", "restart", "task_wait_timeout",
                       "task_nudge_exceeded"} : TaskWaitPoll(outcome)
    \/ \E file \in MarkerFiles \ {NoMarker} : WriteMarker(file)
    \/ RerunItem

SpecTasks == TasksInit /\ [][NextTasks]_vars

\* the agent writes the marker file when there is none; a file the
\* workflow does not consume stays as it is
WriteMarkerOnce(file) ==
    /\ marker_file = NoMarker
    /\ WriteMarker(file)

NextTasksFair ==
    \/ \E pr_ok \in BOOLEAN : ApplyStep(pr_ok)
    \/ \E ok \in BOOLEAN : TaskAgentRun(ok)
    \/ \E outcome \in {"sleep", "restart", "task_wait_timeout",
                       "task_nudge_exceeded"} : TaskWaitPoll(outcome)
    \/ \E file \in MarkerFiles \ {NoMarker} : WriteMarkerOnce(file)
    \/ RerunItem

\* The task loop under the scheduling of the event loop: a coroutine that
\* can run does run (apply_done_marker and the await of agent.run return),
\* and with task_wait_timeout_seconds > 0 a wait that is entered again and
\* again reaches a poll at which its timeout has elapsed.  Nothing is assumed
\* of the agent that writes the marker.
SpecTasksFair ==
    /\ TasksInit
    /\ [][NextTasksFair]_vars
    /\ WF_vars(\E pr_ok \in BOOLEAN : ApplyStep(pr_ok))
    /\ WF_vars(\E ok \in BOOLEAN : TaskAgentRun(ok))
    /\ SF_vars(TaskWaitPoll("task_wait_timeout"))

(* ------------------------- session names ------------------------------ *)
\* characters are one-letter strings, strings are sequences of characters
Digit == <<"0", "1", "2", "3", "4", "5", "6", "7", "8", "9">>
DigitChars == {Digit[k] : k \in 1..10}
\* the class [a-zA-Z0-9_-] of the regular expression, over the letters used
SafeChars == {"a", "c", "e", "_", "-"} \cup DigitChars

\* str(n) for n >= 0
RECURSIVE Str(_)
Str(n) == IF n < 10 THEN <<Digit[n + 1]>> ELSE Str(n \div 10) \o <<Digit[(n % 10) + 1]>>

\* re.sub(r"[^a-zA-Z0-9_-]+", "-", raw): every maximal run of other
\* characters becomes one "-"
RECURSIVE SubUnsafeRuns(_)
SubUnsafeRuns(raw) ==
    IF raw = << >> THEN << >>
    ELSE IF Head(raw) \in SafeChars
         THEN <<Head(raw)>> \o SubUnsafeRuns(Tail(raw))
         ELSE IF Len(raw) > 1 /\ raw[2] \notin SafeChars
              THEN SubUnsafeRuns(Tail(raw))
              ELSE <<"-">> \o SubUnsafeRuns(Tail(raw))

\* str.strip("-")
RECURSIVE LStrip(_)
LStrip(str) == IF str # << >> /\ Head(str) = "-" THEN LStrip(Tail(str)) ELSE str
RECURSIVE RStrip(_)
RStrip(str) ==
    IF str # << >> /\ str[Len(str)] = "-" THEN RStrip(SubSeq(str, 1, Len(str) - 1)) ELSE str
Strip(str) == RStrip(LStrip(str))

\* tmux_ops.session_name_for_issue
SessionNameForIssue(repo_name, issue_number) ==
    LET raw == <<"a", "c", "e", "-">> \o repo_name \o <<"-">> \o Str(issue_number)
        slug == Strip(SubUnsafeRuns(raw))
    IN IF Len(slug) > SessionNameMax THEN SubSeq(slug, 1, SessionNameMax) ELSE slug

\* repository names: an optional long run of "a" followed by a short tail
LongPrefix == [k \in 1..55 |-> "a"]
RepoChars == {"a", "-", "."}
RepoNames == {pre \o tail : pre \in {<< >>, LongPrefix}, tail \in SeqUpTo(RepoChars, MaxTail)}
                \ {<< >>}
IssueNumbers == {1, 12}
NameInputs == [repo_name : RepoNames, number : IssueNumbers]

NamesInit ==
    /\ PoolInit
    /\ AdmitIdle
    /\ RetryIdle
    /\ WaitIdle
    /\ name_in \in NameInputs \X NameInputs
    /\ name_out = << >>
    /\ TasksIdle
    /\ ReclaimIdle
    /\ GraphIdle
    /\ TmuxIdle
    /\ ShutdownIdle
    /\ QueueIdle
    /\ DelayIdle
    /\ ServiceIdle

\* the session names of the two inputs are computed
ComputeNames ==
    /\ name_out = << >>
    /\ name_out' = <<SessionNameForIssue(name_in[1].repo_name, name_in[1].number),
                    SessionNameForIssue(name_in[2].repo_name, name_in[2].number)>>
    /\ UNCHANGED name_in
    /\ UNCHANGED <<poolVars, driverVars, histVars, admitVars, retryVars,
                   waitVars, waitHist>>
    /\ UNCHANGED taskVars
    /\ UNCHANGED reclaimVars
    /\ UNCHANGED graphVars
    /\ UNCHANGED tmuxVars
    /\ UNCHANGED shutdownVars
    /\ UNCHANGED queueVars
    /\ UNCHANGED delayVars
    /\ UNCHANGED serviceVars

NextNames == ComputeNames

SpecNames == NamesInit /\ [][NextNames]_vars


(* --------------------------- the reclaimer ---------------------------- *)
\* Pools that share one workspace root and one tmux server, each with one
\* slot, and the sweep of _cleanup_stale_resources.
Pools == 1..MaxPools
Absent == -1
NoWork == [repo_name |-> << >>, number |-> 0]

\* the items: a plain repository name, a name that session naming sanitises
\* ("a.a", same issue number as the first) and one it truncates
ReclaimItems ==
    {[repo_name |-> <<"a">>, number |-> 1],
     [repo_name |-> <<"a", ".", "a">>, number |-> 1],
     [repo_name |-> LongPrefix \o <<"a", "a", "a", "a">>, number |-> 2]}

\* the session name of each item, computed once
SessionTable ==
    [item \in ReclaimItems |-> SessionNameForIssue(item.repo_name, item.number)]
SessionOf(item) == SessionTable[item]
SessionNames == {SessionTable[item] : item \in ReclaimItems}
\* a session of the tmux server that the orchestrator did not start
ForeignNames == {<<"m", "a", "i", "n">>}
\* the names tmux list-sessions can report
ServerNames == SessionNames \cup ForeignNames

\* cleanup_worktree_retention_hours, cleanup_tmux_retention_hours,
\* cleanup_only_done, cleanup_tmux_enabled; board holds the items that are
\* on the project board during the run
CleanupSettings ==
    [cleanup_worktree_retention : {0, MaxClock},
     cleanup_tmux_retention : {1},
     cleanup_only_done : BOOLEAN,
     cleanup_tmux_enabled : BOOLEAN,
     board : {items \in SUBSET ReclaimItems : Cardinality(items) = MaxPools}]

\* str.isdigit() and int() of a string
IsDigits(str) == str # << >> /\ \A k \in 1..Len(str) : str[k] \in DigitChars
DigitValue(c) == (CHOOSE k \in 1..10 : Digit[k] = c) - 1
RECURSIVE ToInt(_)
ToInt(str) ==
    IF str = << >> THEN 0
    ELSE 10 * ToInt(SubSeq(str, 1, Len(str) - 1)) + DigitValue(str[Len(str)])

\* tmux_ops.parse_issue_from_session: None (ok = FALSE) unless the name starts
\* with "ace-", has at least three "-"-separated parts and ends in digits
NotParsed == [ok |-> FALSE, repo_slug |-> << >>, number |-> 0]
ParseIssueFromSession(name) ==
    LET dashes == {k \in 1..Len(name) : name[k] = "-"} IN
    IF ~(Len(name) >= 4 /\ SubSeq(name, 1, 4) = <<"a", "c", "e", "-">>)
        THEN NotParsed
    ELSE IF Cardinality(dashes) + 1 < 3 THEN NotParsed
    ELSE LET last == CHOOSE k \in dashes : \A j \in dashes : j <= k
             issue_part == SubSeq(name, last + 1, Len(name))
         IN IF ~IsDigits(issue_part) THEN NotParsed
            ELSE [ok |-> TRUE,
                  repo_slug |-> SubSeq(name, 5, last - 1),
                  number |-> ToInt(issue_part)]

\* what each session name parses to, computed once
ParsedTable == [name \in ServerNames |-> ParseIssueFromSession(name)]

\* (worktrees_root / repo_slug / str(number)).exists(): GitOps puts the
\* worktree of an item at worktrees/<repo_name>/<number>
WorktreePathExists(repo_slug, number, mtimes) ==
    \E item \in ReclaimItems :
        /\ item.repo_name = repo_slug
        /\ item.number = number
        /\ mtimes[item] # Absent

\* the items whose slot is RUNNING in pool p
RunningItems(p) == IF rc_slots[p].item = NoWork THEN {} ELSE {rc_slots[p].item}

\* worktree pass: the directories the sweep of pool p removes
SweepRemoves(p) ==
    LET active_issues == {item.number : item \in RunningItems(p)} IN
    {item \in ReclaimItems :
        /\ ws_mtime[item] # Absent
        /\ item.number \notin active_issues
        /\ tmux_sessions[SessionOf(item)] = Absent
        /\ ~rc_cfg.cleanup_only_done
        /\ ~(clock - ws_mtime[item] < rc_cfg.cleanup_worktree_retention)}

\* session pass: the sessions the sweep of pool p kills, given the worktrees
\* left by the worktree pass
SweepKills(p, mtimes) ==
    LET active_sessions == {SessionOf(item) : item \in RunningItems(p)} IN
    IF ~rc_cfg.cleanup_tmux_enabled THEN {}
    ELSE {name \in ServerNames :
            /\ tmux_sessions[name] # Absent
            /\ name \notin active_sessions
            /\ ~(clock - tmux_sessions[name] < rc_cfg.cleanup_tmux_retention)
            /\ LET parsed == ParsedTable[name] IN
               ~(/\ parsed.ok
                 /\ WorktreePathExists(parsed.repo_slug, parsed.number, mtimes)
                 /\ rc_cfg.cleanup_only_done)}

ReclaimInit ==
    /\ PoolInit /\ NameInit /\ AdmitIdle /\ RetryIdle /\ WaitIdle /\ TasksIdle
    /\ ws_mtime = [item \in ReclaimItems |-> Absent]
    /\ root_exists = FALSE
    /\ tmux_sessions \in {srv \in [ServerNames -> {Absent, 0}] :
                            \A name \in SessionNames : srv[name] = Absent}
    /\ rc_slots = [p \in Pools |-> [item |-> NoWork, stage |-> "idle"]]
    /\ clock = 0
    /\ rc_cfg \in CleanupSettings
    /\ h_removed = {}
    /\ h_killed = {}
    /\ GraphIdle
    /\ TmuxIdle
    /\ ShutdownIdle
    /\ QueueIdle
    /\ DelayIdle
    /\ ServiceIdle

\* the history describes the last step only
NoSweep == h_removed' = {} /\ h_killed' = {}

ReclaimFrame == UNCHANGED <<poolVars, driverVars, histVars, nameVars, admitVars,
                            retryVars, waitVars, waitHist, taskVars>>
    /\ UNCHANGED graphVars
    /\ UNCHANGED tmuxVars
    /\ UNCHANGED shutdownVars
    /\ UNCHANGED queueVars
    /\ UNCHANGED delayVars
    /\ UNCHANGED serviceVars

\* _spawn_agent in pool p: the slot turns RUNNING for an item no slot holds
SpawnForItem(p, item) ==
    /\ item \in rc_cfg.board
    /\ rc_slots[p].item = NoWork
    /\ \A q \in Pools : rc_slots[q].item # item
    /\ rc_slots' = [rc_slots EXCEPT ![p] = [item |-> item, stage |-> "claimed"]]
    /\ UNCHANGED <<ws_mtime, root_exists, tmux_sessions, clock, rc_cfg>>
    /\ NoSweep
    /\ ReclaimFrame

\* run_agent: the worktree is cloned unless it exists already
EnsureWorktree(p) ==
    /\ rc_slots[p].stage = "claimed"
    /\ LET item == rc_slots[p].item IN
       ws_mtime' = IF ws_mtime[item] = Absent
                     THEN [ws_mtime EXCEPT ![item] = clock]
                     ELSE ws_mtime
    /\ root_exists' = TRUE
    /\ rc_slots' = [rc_slots EXCEPT ![p].stage = "worktree"]
    /\ UNCHANGED <<tmux_sessions, clock, rc_cfg>>
    /\ NoSweep
    /\ ReclaimFrame

\* CliAgent.run: TmuxOps.start_session starts the item's session unless one
\* of that name exists
StartSession(p) ==
    /\ rc_slots[p].stage = "worktree"
    /\ LET name == SessionOf(rc_slots[p].item) IN
       tmux_sessions' = IF tmux_sessions[name] = Absent
                          THEN [tmux_sessions EXCEPT ![name] = clock]
                          ELSE tmux_sessions
    /\ rc_slots' = [rc_slots EXCEPT ![p].stage = "session"]
    /\ UNCHANGED <<ws_mtime, root_exists, clock, rc_cfg>>
    /\ NoSweep
    /\ ReclaimFrame

\* the agent works: the session shows activity and the plan file is saved
AgentActivity(p) ==
    /\ rc_slots[p].stage = "session"
    /\ LET item == rc_slots[p].item
           name == SessionOf(item)
       IN
       /\ tmux_sessions' = IF tmux_sessions[name] = Absent THEN tmux_sessions
                           ELSE [tmux_sessions EXCEPT ![name] = clock]
       /\ ws_mtime' = IF ws_mtime[item] = Absent THEN ws_mtime
                      ELSE [ws_mtime EXCEPT ![item] = clock]
    /\ UNCHANGED <<root_exists, rc_slots, clock, rc_cfg>>
    /\ NoSweep
    /\ ReclaimFrame

\* _run_agent_for_issue, finally: the slot is idle again; worktree and
\* session stay
FinishItem(p) ==
    /\ rc_slots[p].item # NoWork
    /\ rc_slots' = [rc_slots EXCEPT ![p] = [item |-> NoWork, stage |-> "idle"]]
    /\ UNCHANGED <<ws_mtime, root_exists, tmux_sessions, clock, rc_cfg>>
    /\ NoSweep
    /\ ReclaimFrame

\* a session ends on its own (the shell exits)
SessionExits(name) ==
    /\ tmux_sessions[name] # Absent
    /\ tmux_sessions' = [tmux_sessions EXCEPT ![name] = Absent]
    /\ UNCHANGED <<ws_mtime, root_exists, rc_slots, clock, rc_cfg>>
    /\ NoSweep
    /\ ReclaimFrame

ClockTick ==
    /\ clock < MaxClock
    /\ clock' = clock + 1
    /\ UNCHANGED <<ws_mtime, root_exists, tmux_sessions, rc_slots, rc_cfg>>
    /\ NoSweep
    /\ ReclaimFrame

\* _cleanup_stale_resources in pool p; nothing in it yields to the event
\* loop, so a sweep is one step
CleanupStaleResources(p) ==
    /\ IF ~root_exists
         THEN /\ UNCHANGED <<ws_mtime, tmux_sessions>>
              /\ h_removed' = {}
              /\ h_killed' = {}
       ELSE LET removed == SweepRemoves(p)
                mtimes == [item \in ReclaimItems |->
                              IF item \in removed THEN Absent ELSE ws_mtime[item]]
                killed == SweepKills(p, mtimes)
            IN
            /\ ws_mtime' = mtimes
            /\ tmux_sessions' = [name \in ServerNames |->
                                    IF name \in killed THEN Absent
                                    ELSE tmux_sessions[name]]
            /\ h_removed' =
                 {[item |-> item,
                   held |-> \E q \in Pools : rc_slots[q].item = item,
                   live |-> tmux_sessions[SessionOf(item)] # Absent,
                   age |-> clock - ws_mtime[item]] : item \in removed}
            /\ h_killed' =
                 {[name |-> name,
                   own_slot |-> \E item \in RunningItems(p) : SessionOf(item) = name,
                   bound |-> \E item \in ReclaimItems :
                                SessionOf(item) = name /\ mtimes[item] # Absent,
                   age |-> clock - tmux_sessions[name]] : name \in killed}
    /\ UNCHANGED <<root_exists, rc_slots, clock, rc_cfg>>
    /\ ReclaimFrame

NextReclaim ==
    \/ \E p \in Pools, item \in ReclaimItems : SpawnForItem(p, item)
    \/ \E p \in Pools : EnsureWorktree(p)
    \/ \E p \in Pools : StartSession(p)
    \/ \E p \in Pools : AgentActivity(p)
    \/ \E p \in Pools : FinishItem(p)
    \/ \E name \in ServerNames : SessionExits(name)
    \/ ClockTick
    \/ \E p \in Pools : CleanupStaleResources(p)

SpecReclaim == ReclaimInit /\ [][NextReclaim]_vars

(* ------------------------- the workflow graph ------------------------- *)
\* One pass of an initial WorkerState through fetch_candidates, claim_issue,
\* hydrate_context, select_backend and the entry of run_agent.

\* Difficulty, in the order of the enum
DifficultyEasy == "difficulty:easy"
DifficultyMedium == "difficulty:medium"
DifficultyHard == "difficulty:hard"
Difficulties == <<DifficultyEasy, DifficultyMedium, DifficultyHard>>

\* ModelSelector.difficulty_map under the default settings, and under the
\* settings tests/test_model_selector.py expects
DefaultTable ==
    [e \in {DifficultyEasy, DifficultyMedium, DifficultyHard} |->
        IF e = DifficultyEasy
            THEN [backend |-> "claude", model |-> "claude-haiku-4-5"]
        ELSE IF e = DifficultyMedium
            THEN [backend |-> "claude", model |-> "claude-sonnet-4-5"]
        ELSE [backend |-> "claude", model |-> "claude-opus-4-5"]]
TestTable ==
    [e \in {DifficultyEasy, DifficultyMedium, DifficultyHard} |->
        IF e = DifficultyEasy
            THEN [backend |-> "codex", model |-> "gpt-5.1-codex"]
        ELSE IF e = DifficultyMedium
            THEN [backend |-> "claude", model |-> "claude-haiku-4-5"]
        ELSE [backend |-> "claude", model |-> "claude-opus-4-1"]]

\* the labels an issue can carry
GraphLabels == {DifficultyEasy, DifficultyMedium, DifficultyHard, "agent:ready"}
LabelLists == SeqUpTo(GraphLabels, MaxLabels)
InList(label, labels) == \E k \in 1..Len(labels) : labels[k] = label

\* WorkerState.issue is None
NoIssue == [present |-> FALSE, labels |-> << >>, repo_known |-> FALSE]
\* the issues the pool and the harness hand to the graph; worker.py hands none
GraphIssues ==
    [present : {TRUE}, labels : LabelLists, repo_known : BOOLEAN]

NoSelection == [backend |-> "", model |-> ""]

\* ModelSelector.select_model: the pair of the first difficulty of the enum
\* whose value is in labels; ValueError (ok = FALSE) when there is none
SelectModel(table, labels) ==
    LET found == {k \in 1..Len(Difficulties) : InList(Difficulties[k], labels)} IN
    IF found = {} THEN [ok |-> FALSE, config |-> NoSelection]
    ELSE [ok |-> TRUE,
          config |-> table[Difficulties[CHOOSE k \in found : \A j \in found : k <= j]]]

\* ModelSelector.get_default_model
GetDefaultModel(table) == table[DifficultyEasy]

\* graph.select_backend: the pair it stores in the state
SelectBackend(table, issue) ==
    IF ~issue.present
        THEN [backend |-> "codex", model |-> "gpt-5.1-codex"]
    ELSE LET selected == SelectModel(table, issue.labels) IN
         IF selected.ok THEN selected.config ELSE GetDefaultModel(table)

\* graph.claim_issue: whether it calls StatusManager.claim_issue
ClaimGuard(issue, branch_name) == issue.present /\ branch_name # ""

\* StatusManager.claim_issue: whether it goes on to its remote calls
ClaimProceeds(issue, status_disabled) == issue.repo_known /\ ~status_disabled

GraphInit ==
    /\ PoolInit /\ NameInit /\ AdmitIdle /\ RetryIdle /\ WaitIdle /\ TasksIdle
    /\ ReclaimIdle
    /\ g_pc = "claim_issue"
    /\ g_entry \in {"pool", "harness", "worker"}
    /\ g_issue \in IF g_entry = "worker" THEN {NoIssue} ELSE GraphIssues
    /\ g_branch_name = ""
    /\ g_selected = NoSelection
    /\ g_settings \in [disable_issue_status : BOOLEAN,
                       difficulty_map : {DefaultTable, TestTable}]
    /\ g_board_status \in {"Ready", "In progress"}
    /\ g_claim_comment = FALSE
    /\ h_comment_call = "none"
    /\ h_status_call = "none"
    /\ TmuxIdle
    /\ ShutdownIdle
    /\ QueueIdle
    /\ DelayIdle
    /\ ServiceIdle

GraphFrame == UNCHANGED <<poolVars, driverVars, histVars, nameVars, admitVars,
                          retryVars, waitVars, waitHist, taskVars, reclaimVars>>
    /\ UNCHANGED tmuxVars
    /\ UNCHANGED shutdownVars
    /\ UNCHANGED queueVars
    /\ UNCHANGED delayVars
    /\ UNCHANGED serviceVars

\* the node claim_issue; comment_ok and status_ok say whether post_comment
\* and set_project_status succeed when they are called.  An exception of
\* either call is logged and the node returns the state.
ClaimIssue(comment_ok, status_ok) ==
    /\ g_pc = "claim_issue"
    /\ IF ClaimGuard(g_issue, g_branch_name)
            /\ ClaimProceeds(g_issue, g_settings.disable_issue_status)
         THEN /\ h_comment_call' = IF comment_ok THEN "ok" ELSE "failed"
              /\ g_claim_comment' = comment_ok
              /\ h_status_call' = IF ~comment_ok THEN "none"
                                  ELSE IF status_ok THEN "ok" ELSE "failed"
              /\ g_board_status' = IF comment_ok /\ status_ok
                                     THEN "In progress" ELSE g_board_status
         ELSE UNCHANGED <<h_comment_call, g_claim_comment, h_status_call,
                          g_board_status>>
    /\ g_pc' = "hydrate_context"
    /\ UNCHANGED <<g_entry, g_issue, g_branch_name, g_selected, g_settings>>
    /\ GraphFrame

\* the node hydrate_context changes nothing but current_step
HydrateContext ==
    /\ g_pc = "hydrate_context"
    /\ g_pc' = "select_backend"
    /\ UNCHANGED <<g_entry, g_issue, g_branch_name, g_selected, g_settings,
                   g_board_status, g_claim_comment, h_comment_call, h_status_call>>
    /\ GraphFrame

\* the node select_backend
SelectBackendNode ==
    /\ g_pc = "select_backend"
    /\ g_selected' = SelectBackend(g_settings.difficulty_map, g_issue)
    /\ g_pc' = "run_agent"
    /\ UNCHANGED <<g_entry, g_issue, g_branch_name, g_settings,
                   g_board_status, g_claim_comment, h_comment_call, h_status_call>>
    /\ GraphFrame

\* run_agent begins: without an issue it returns, without a repository it
\* fails, otherwise it names the branch
RunAgentEntry ==
    /\ g_pc = "run_agent"
    /\ g_pc' = "in_run_agent"
    /\ g_branch_name' = IF g_issue.present /\ g_issue.repo_known
                          THEN "agent/1-title" ELSE g_branch_name
    /\ UNCHANGED <<g_entry, g_issue, g_selected, g_settings,
                   g_board_status, g_claim_comment, h_comment_call, h_status_call>>
    /\ GraphFrame

NextGraph ==
    \/ \E comment_ok, status_ok \in BOOLEAN : ClaimIssue(comment_ok, status_ok)
    \/ HydrateContext
    \/ SelectBackendNode
    \/ RunAgentEntry

SpecGraph == GraphInit /\ [][NextGraph]_vars

(* ----------------------------- TmuxOps -------------------------------- *)
\* TmuxOps.start_session and kill_session on a tmux server.  Both are
\* synchronous, so a call is one step.
TmuxNames == {"ace-app-1", "ace-app-2"}
Workdirs == {"worktrees/app/1", "worktrees/app/2"}
\* env of a call: none, or the exports of CliAgent.run
Envs == {"none", "exports"}
NoSession == [alive |-> FALSE, workdir |-> "", env |-> "none"]
Sessions == {NoSession} \cup [alive : {TRUE}, workdir : Workdirs, env : Envs]

\* start_session without its session_exists check
StartSessionAlways(session, workdir, env, new_ok, env_ok) ==
    IF ~new_ok THEN [session |-> session, result |-> "raised"]
    ELSE IF env # "none" /\ ~env_ok
        THEN [session |-> [alive |-> TRUE, workdir |-> workdir, env |-> "none"],
              result |-> "raised"]
    ELSE [session |-> [alive |-> TRUE, workdir |-> workdir, env |-> env],
          result |-> "created"]

\* TmuxOps.start_session on the entry of its session name: False ("exists")
\* when the session exists; otherwise tmux new-session and, for a non-empty
\* env, tmux set-environment, each raising CalledProcessError when tmux
\* fails (new_ok, env_ok); True ("created") at the end
StartSessionResult(session, workdir, env, new_ok, env_ok) ==
    IF session.alive THEN [session |-> session, result |-> "exists"]
    ELSE IF ~new_ok THEN [session |-> session, result |-> "raised"]
    ELSE IF env # "none" /\ ~env_ok
        THEN [session |-> [alive |-> TRUE, workdir |-> workdir, env |-> "none"],
              result |-> "raised"]
    ELSE [session |-> [alive |-> TRUE, workdir |-> workdir, env |-> env],
          result |-> "created"]

TmuxInit ==
    /\ PoolInit /\ NameInit /\ AdmitIdle /\ RetryIdle /\ WaitIdle /\ TasksIdle
    /\ ReclaimIdle /\ GraphIdle
    /\ tmux_srv \in [TmuxNames -> Sessions]
    /\ h_calls = [name \in TmuxNames |-> << >>]
    /\ ShutdownIdle
    /\ QueueIdle
    /\ DelayIdle
    /\ ServiceIdle

TmuxFrame == UNCHANGED <<poolVars, driverVars, histVars, nameVars, admitVars,
                         retryVars, waitVars, waitHist, taskVars, reclaimVars,
                         graphVars>>
    /\ UNCHANGED shutdownVars
    /\ UNCHANGED queueVars
    /\ UNCHANGED delayVars
    /\ UNCHANGED serviceVars

\* the last MaxCalls calls, with the call just made at the end
Remember(calls, call) ==
    LET all == Append(calls, call) IN
    IF Len(all) > MaxCalls THEN Tail(all) ELSE all

StartSessionCall(name, workdir, env, new_ok, env_ok) ==
    /\ LET r == StartSessionResult(tmux_srv[name], workdir, env, new_ok, env_ok) IN
       /\ tmux_srv' = [tmux_srv EXCEPT ![name] = r.session]
       /\ h_calls' = [h_calls EXCEPT ![name] =
                        Remember(@, [before |-> tmux_srv[name],
                                     result |-> r.result,
                                     after |-> r.session])]
    /\ TmuxFrame

\* TmuxOps.kill_session: nothing without the session; tmux kill-session may
\* fail (kill_ok), which is logged
KillSessionCall(name, kill_ok) ==
    /\ tmux_srv' = IF tmux_srv[name].alive /\ kill_ok
                     THEN [tmux_srv EXCEPT ![name] = NoSession]
                     ELSE tmux_srv
    /\ h_calls' = [h_calls EXCEPT ![name] = << >>]
    /\ TmuxFrame

\* the shell of a session exits
TmuxSessionExits(name) ==
    /\ tmux_srv[name].alive
    /\ tmux_srv' = [tmux_srv EXCEPT ![name] = NoSession]
    /\ h_calls' = [h_calls EXCEPT ![name] = << >>]
    /\ TmuxFrame

NextTmux ==
    \/ \E name \in TmuxNames, workdir \in Workdirs, env \in Envs,
          new_ok, env_ok \in BOOLEAN :
            StartSessionCall(name, workdir, env, new_ok, env_ok)
    \/ \E name \in TmuxNames, kill_ok \in BOOLEAN : KillSessionCall(name, kill_ok)
    \/ \E name \in TmuxNames : TmuxSessionExits(name)

SpecTmux == TmuxInit /\ [][NextTmux]_vars

(* ----------------------------- shutdown ------------------------------- *)
\* AgentPool.shutdown on a pool with one run: stop(), wait_for_completion
\* with its timeout, then the close of the pool's API client.

\* what identifies a workflow task
TaskId(t) == [slot |-> t.slot, key |-> t.key]

\* self._api_client is created by the first use of the api_client property,
\* that is by the first queue build of a run
ClientCreated == \E d \in Drivers : pc[d] # "idle"

ShutdownFrame ==
    /\ UNCHANGED <<slots, tasks, processed_issues, fatal_error, completed_count,
                   failed_count, session_processed, max_issues_per_run,
                   active_gauge>>
    /\ UNCHANGED driverVars
    /\ UNCHANGED histVars
    /\ UNCHANGED <<nameVars, admitVars, retryVars, waitVars, waitHist, taskVars,
                   reclaimVars, graphVars, tmuxVars>>
    /\ UNCHANGED queueVars
    /\ UNCHANGED delayVars
    /\ UNCHANGED serviceVars

\* shutdown is called: stop(), then wait_for_completion collects the tasks
\* that are not done and, if there are any, awaits asyncio.wait
ShutdownCall ==
    /\ sd_pc = "idle"
    /\ running' = StopFlags.running
    /\ draining' = StopFlags.draining
    /\ sd_waited' = {TaskId(t) : t \in tasks}
    /\ sd_pc' = IF tasks = {} THEN "closing" ELSE "waiting"
    /\ UNCHANGED <<client_closed, h_inflight_at_close>>
    /\ ShutdownFrame

\* asyncio.wait(tasks, timeout=30) returns: every task it waits for is done,
\* or the timeout has passed; it cancels nothing
WaitForCompletionEnds(timed_out) ==
    /\ sd_pc = "waiting"
    /\ timed_out \/ ({TaskId(t) : t \in tasks} \cap sd_waited = {})
    /\ sd_pc' = "closing"
    /\ UNCHANGED <<running, draining, sd_waited, client_closed, h_inflight_at_close>>
    /\ ShutdownFrame

\* if self._api_client: await self._api_client.close()
CloseClient ==
    /\ sd_pc = "closing"
    /\ sd_pc' = "done"
    /\ client_closed' = ClientCreated
    /\ h_inflight_at_close' = IF ClientCreated THEN {TaskId(t) : t \in tasks} ELSE {}
    /\ UNCHANGED <<running, draining, sd_waited>>
    /\ ShutdownFrame

NextShutdown ==
    \/ \E d \in Drivers : StartOnlyRun(d)
    \/ \E d \in Drivers : Wake(d)
    \/ \E d \in Drivers : FetchInProgress(d)
    \/ \E d \in Drivers : FetchFail(d)
    \/ \E d \in Drivers : FetchReady(d)
    \/ \E d \in Drivers : ProcessWorkQueue(d)
    \/ \E d \in Drivers : Cleanup(d)
    \/ Stop
    \/ \E t \in tasks : WorkflowStart(t)
    \/ \E t \in tasks, o \in Outcomes : WorkflowEnd(t, o)
    \/ ShutdownCall
    \/ \E timed_out \in BOOLEAN : WaitForCompletionEnds(timed_out)
    \/ CloseClient

SpecShutdown == Init /\ [][NextShutdown]_vars

(* --------------------------- the work queue --------------------------- *)
\* AgentPool._build_work_queue on the lists its three fetches returned.
QueueItems == [repo_owner : Owners, repo_name : Repos, number : {1, 2}]
\* the open pull requests with review comments
QueuePrs == {i \in QueueItems : i.repo_owner = "acme"}
\* comment.get("id"): 0 stands for a comment without an id
RawCommentIds == {0, 7}
RawComments == [issue : QueuePrs, id : RawCommentIds]
\* a WorkKey no fetched item has
UnknownKey == <<"issue", "acme", "app", 99>>

\* sequences over S of length at most n without a repeated element
DistinctSeqUpTo(S, n) ==
    {s \in SeqUpTo(S, n) : \A a, b \in 1..Len(s) : s[a] = s[b] => a = b}

\* fetch_pr_comment_work_items: one item per review comment that has an id
\* and whose key is not processed, in the order of the comments
FetchPrCommentWorkItems(comments, processed) ==
    LET kept == SelectSeq(comments, LAMBDA c :
                    /\ c.issue.repo_owner # "" /\ c.issue.repo_name # ""
                    /\ c.id # 0
                    /\ PrCommentKey(c.issue, c.id) \notin processed)
    IN [k \in 1..Len(kept) |-> PrItem(kept[k].issue, kept[k].id)]

\* the dict counts of _build_work_queue; pr_items is the list line 410 rebinds
BuildCounts(fetched_pr_items, in_progress, ready) ==
    LET pr_items == << >>
        seen_numbers == {pr_items[k].issue.number : k \in 1..Len(pr_items)}
    IN [pr_comment |-> Len(pr_items),
        in_progress |-> Len(DropSeenNumbers(in_progress, seen_numbers)),
        ready |-> Len(DropSeenNumbers(ready, seen_numbers))]

\* by_key = {key: issue for issue, key in ordered}: the last entry of a key
ByKey(ordered, key) ==
    LET last == CHOOSE a \in 1..Len(ordered) :
                    /\ ordered[a].key = key
                    /\ \A b \in (a + 1)..Len(ordered) : ordered[b].key # key
    IN ordered[last].issue

\* the end of _build_work_queue after the advisor answered: ordered itself
\* for an empty answer, otherwise an entry per answered key that by_key
\* knows, then the entries of ordered whose key is not in the answer
AdvisorReorder(ordered, ordered_keys) ==
    IF ordered_keys = << >> THEN ordered
    ELSE LET known == SelectSeq(ordered_keys, LAMBDA key : key \in QueueKeys(ordered))
             answered == {ordered_keys[k] : k \in 1..Len(ordered_keys)}
         IN [k \in 1..Len(known) |-> [issue |-> ByKey(ordered, known[k]), key |-> known[k]]]
            \o SelectSeq(ordered, LAMBDA it : it.key \notin answered)

\* ManagerAgent.order_work_items: a list of WorkKeys; nothing in
\* _build_work_queue restricts it to the keys it was given
OrderWorkItems(ordered) ==
    SeqUpTo(QueueKeys(ordered) \cup {UnknownKey}, MaxQueueFetch)

QueueInit ==
    /\ PoolInit /\ NameInit /\ AdmitIdle /\ RetryIdle /\ WaitIdle /\ TasksIdle
    /\ ReclaimIdle /\ GraphIdle /\ TmuxIdle /\ ShutdownIdle
    /\ wq_comments \in SeqUpTo(RawComments, MaxQueueFetch)
    /\ wq_processed \in SUBSET {PrCommentKey(i, 7) : i \in {p \in QueuePrs : p.number = 1}}
    /\ wq_in_progress \in DistinctSeqUpTo(QueueItems, MaxQueueFetch)
    /\ wq_ready \in DistinctSeqUpTo(QueueItems, MaxQueueFetch)
    /\ wq_manager \in BOOLEAN
    /\ wq_pc = "fetched"
    /\ wq_ordered = << >>
    /\ wq_counts = [pr_comment |-> 0, in_progress |-> 0, ready |-> 0]
    /\ wq_ordered_keys = << >>
    /\ wq_queue = << >>
    /\ DelayIdle
    /\ ServiceIdle

QueueFrame == UNCHANGED <<poolVars, driverVars, histVars, nameVars, admitVars,
                          retryVars, waitVars, waitHist, taskVars, reclaimVars,
                          graphVars, tmuxVars, shutdownVars>>
    /\ UNCHANGED delayVars
    /\ UNCHANGED serviceVars

\* the three fetches have returned: _build_work_queue classifies the items
\* and, without a manager, returns; with one it awaits order_work_items
BuildWorkQueueCall ==
    /\ wq_pc = "fetched"
    /\ LET pr_items == FetchPrCommentWorkItems(wq_comments, wq_processed)
           ordered == BuildWorkQueue(pr_items, wq_in_progress, wq_ready)
       IN /\ wq_ordered' = ordered
          /\ wq_counts' = BuildCounts(pr_items, wq_in_progress, wq_ready)
          /\ IF wq_manager
             THEN /\ wq_pc' = "advising"
                  /\ UNCHANGED wq_queue
             ELSE /\ wq_pc' = "returned"
                  /\ wq_queue' = ordered
    /\ UNCHANGED <<wq_comments, wq_processed, wq_in_progress, wq_ready,
                   wq_manager, wq_ordered_keys>>
    /\ QueueFrame

\* the advisor answers and _build_work_queue returns
OrderWorkItemsReturns(ordered_keys) ==
    /\ wq_pc = "advising"
    /\ wq_ordered_keys' = ordered_keys
    /\ wq_queue' = AdvisorReorder(wq_ordered, ordered_keys)
    /\ wq_pc' = "returned"
    /\ UNCHANGED <<wq_comments, wq_processed, wq_in_progress, wq_ready,
                   wq_manager, wq_ordered, wq_counts>>
    /\ QueueFrame

NextQueue ==
    \/ BuildWorkQueueCall
    \/ \E ordered_keys \in OrderWorkItems(wq_ordered) :
          OrderWorkItemsReturns(ordered_keys)

SpecQueue == QueueInit /\ [][NextQueue]_vars

(* ---------------------------- retry delay ---------------------------- *)
\* GitHubAPIClient._retry_delay and _rate_limit_delay.  Times are whole
\* seconds; a header is absent or a string of characters.
NoHeader == [present |-> FALSE, value |-> << >>]
Header(str) == [present |-> TRUE, value |-> str]
NoResponse == [present |-> FALSE]
\* values of Retry-After: none, empty, an HTTP date, and seconds
RetryAfterValues == {NoHeader, Header(<< >>), Header(<<"W", "e", "d">>),
                     Header(<<"-", "1">>), Header(<<"0">>), Header(<<"3">>)}
RemainingHeaders == {NoHeader, Header(<<"0">>), Header(<<"5">>)}
\* values of X-RateLimit-Reset: epoch seconds
ResetValues == {NoHeader, Header(<< >>), Header(<<"s", "o", "o", "n">>),
                Header(<<"4">>), Header(<<"9">>)}
DelayResponses == {NoResponse} \cup
    [present : {TRUE}, retry_after : RetryAfterValues,
     remaining : RemainingHeaders, reset : ResetValues]
DelaySettings == [base : {1, 2}, max_delay : {3, 30}]
DelayClock == {3, 6}

\* float(str) and int(str) on a sign and digits; anything else raises
\* ValueError
ParseNumber(str) ==
    IF IsDigits(str) THEN [ok |-> TRUE, value |-> ToInt(str)]
    ELSE IF Len(str) > 1 /\ str[1] = "-" /\ IsDigits(Tail(str))
         THEN [ok |-> TRUE, value |-> 0 - ToInt(Tail(str))]
    ELSE [ok |-> FALSE, value |-> 0]

\* the truth value of headers.get(name): None and "" are false
HeaderTruthy(header) == header.present /\ header.value # << >>

NoDelay == [some |-> FALSE, value |-> 0]
SomeDelay(v) == [some |-> TRUE, value |-> v]

\* GitHubAPIClient._rate_limit_delay: None is NoDelay
RateLimitDelay(response, time) ==
    IF ~response.present THEN NoDelay
    ELSE IF HeaderTruthy(response.retry_after)
         THEN IF ParseNumber(response.retry_after.value).ok
              THEN SomeDelay(ParseNumber(response.retry_after.value).value)
              ELSE NoDelay
    ELSE IF response.remaining = Header(<<"0">>) /\ HeaderTruthy(response.reset)
         THEN IF ParseNumber(response.reset.value).ok
              THEN LET left == ParseNumber(response.reset.value).value - time
                   IN SomeDelay((IF left > 0 THEN left ELSE 0) + 1)
              ELSE NoDelay
    ELSE NoDelay

\* min(max_delay, base * (2**attempt) + jitter)
BackoffDelay(settings, attempt_no, jitter) ==
    LET backoff == settings.base * (2 ^ attempt_no) + jitter
    IN IF settings.max_delay < backoff THEN settings.max_delay ELSE backoff

\* random.uniform(0, base): at least 0 and below base
Jitters(settings) == 0..(settings.base - 1)

DelayInit ==
    /\ PoolInit /\ NameInit /\ AdmitIdle /\ RetryIdle /\ WaitIdle /\ TasksIdle
    /\ ReclaimIdle /\ GraphIdle /\ TmuxIdle /\ ShutdownIdle /\ QueueIdle
    /\ rd_response \in DelayResponses
    /\ rd_attempt \in 0..MaxRetries
    /\ rd_now \in DelayClock
    /\ rd_settings \in DelaySettings
    /\ rd_pc = "called"
    /\ rd_delay = 0
    /\ h_branch = "none"
    /\ ServiceIdle

DelayFrame == UNCHANGED <<poolVars, driverVars, histVars, nameVars, admitVars,
                          retryVars, waitVars, waitHist, taskVars, reclaimVars,
                          graphVars, tmuxVars, shutdownVars, queueVars>>
    /\ UNCHANGED serviceVars

\* GitHubAPIClient._retry_delay
RetryDelayCall(jitter) ==
    /\ rd_pc = "called"
    /\ LET header_delay == RateLimitDelay(rd_response, rd_now) IN
       IF header_delay.some
       THEN /\ rd_delay' = header_delay.value
            /\ h_branch' = "header"
       ELSE /\ rd_delay' = BackoffDelay(rd_settings, rd_attempt, jitter)
            /\ h_branch' = "backoff"
    /\ rd_pc' = "returned"
    /\ UNCHANGED <<rd_response, rd_attempt, rd_now, rd_settings>>
    /\ DelayFrame

\* the next call of _retry_delay: another response, attempt and time
NextDelayCall ==
    /\ rd_pc = "returned"
    /\ rd_response' \in DelayResponses
    /\ rd_attempt' \in 0..MaxRetries
    /\ rd_now' \in DelayClock
    /\ rd_pc' = "called"
    /\ rd_delay' = 0
    /\ h_branch' = "none"
    /\ UNCHANGED rd_settings
    /\ DelayFrame

NextDelay ==
    \/ \E jitter \in Jitters(rd_settings) : RetryDelayCall(jitter)
    \/ NextDelayCall

SpecDelay == DelayInit /\ [][NextDelay]_vars

(* ----------------------------- the service ---------------------------- *)
\* The endpoints of runners/service.py and DailyScheduler.run_daily on the
\* pool of one target (get_pool returns the same AgentPool for a target).
\* Every request adds a background task, a coroutine of its own, to the
\* event loop.  A coroutine is in a pass ("build") from the await of the
\* queue build (of fetch_ready_issues in process_ready_issues) until its
\* spawn loop has run; spawn_agent does not yield, so build result and spawn
\* loop are one step.
DriverIds == 1..MaxDrivers
NoDriver == [kind |-> "none", pc |-> "none"]
InPass(d) == sv_driver[d].pc = "build"
Draining(d) == sv_driver[d].kind = "drain"

ServiceInit ==
    /\ PoolInit /\ NameInit /\ AdmitIdle /\ RetryIdle /\ WaitIdle /\ TasksIdle
    /\ ReclaimIdle /\ GraphIdle /\ TmuxIdle /\ ShutdownIdle /\ QueueIdle
    /\ DelayIdle
    /\ sv_driver = [d \in DriverIds |-> NoDriver]
    /\ sv_active = 0
    /\ sv_board \in 0..MaxBoard
    /\ sv_running = FALSE
    /\ sv_draining = FALSE
    /\ sv_sched = 0
    /\ sv_response = "none"
    /\ h_run_over_drain = FALSE

ServiceFrame == UNCHANGED <<poolVars, driverVars, histVars, nameVars, admitVars,
                            retryVars, waitVars, waitHist, taskVars, reclaimVars,
                            graphVars, tmuxVars, shutdownVars, queueVars,
                            delayVars>>

\* POST /agents/spawn: pool.process_ready_issues as a background task, which
\* runs to its await of fetch_ready_issues
SpawnRequest(d) ==
    /\ sv_driver[d] = NoDriver
    /\ sv_driver' = [sv_driver EXCEPT ![d] = [kind |-> "spawn", pc |-> "build"]]
    /\ UNCHANGED <<sv_active, sv_board, sv_running, sv_draining, sv_sched,
                   sv_response, h_run_over_drain>>
    /\ ServiceFrame

\* POST /agents/run: already_running when a slot is running, otherwise
\* pool.run_until_empty as a background task, which sets _draining and runs
\* to the queue build of its first pass
RunRequest(d) ==
    /\ sv_driver[d] = NoDriver
    /\ IF sv_active > 0
       THEN /\ sv_response' = "already_running"
            /\ UNCHANGED <<sv_driver, sv_draining, h_run_over_drain>>
       ELSE /\ sv_response' = "started"
            /\ sv_driver' = [sv_driver EXCEPT ![d] = [kind |-> "drain", pc |-> "build"]]
            /\ sv_draining' = TRUE
            /\ h_run_over_drain' = (h_run_over_drain \/ \E e \in DriverIds : Draining(e))
    /\ UNCHANGED <<sv_active, sv_board, sv_running, sv_sched>>
    /\ ServiceFrame

\* POST /agents/start: pool.run_continuous as a background task
StartRequest(d) ==
    /\ sv_driver[d] = NoDriver
    /\ sv_driver' = [sv_driver EXCEPT ![d] = [kind |-> "continuous", pc |-> "build"]]
    /\ sv_running' = TRUE
    /\ UNCHANGED <<sv_active, sv_board, sv_draining, sv_sched, sv_response,
                   h_run_over_drain>>
    /\ ServiceFrame

\* DailyScheduler.run_daily wakes up and awaits pool.run_until_empty(); its
\* next trigger comes after that call has ended
SchedulerTrigger(d) ==
    /\ sv_sched = 0
    /\ sv_driver[d] = NoDriver
    /\ sv_driver' = [sv_driver EXCEPT ![d] = [kind |-> "drain", pc |-> "build"]]
    /\ sv_draining' = TRUE
    /\ sv_sched' = d
    /\ UNCHANGED <<sv_active, sv_board, sv_running, sv_response, h_run_over_drain>>
    /\ ServiceFrame

\* POST /agents/stop: pool.stop()
StopRequest ==
    /\ sv_running' = FALSE
    /\ sv_draining' = FALSE
    /\ UNCHANGED <<sv_driver, sv_active, sv_board, sv_sched, sv_response,
                   h_run_over_drain>>
    /\ ServiceFrame

\* the coroutine leaves its function; run_until_empty's finally block
\* clears _draining
DriverEnds(d) ==
    /\ sv_driver' = [sv_driver EXCEPT ![d] = NoDriver]
    /\ sv_draining' = IF Draining(d) THEN FALSE ELSE sv_draining
    /\ sv_sched' = IF sv_sched = d THEN 0 ELSE sv_sched

\* the build of a pass returns the items of the board; the spawn loop fills
\* the idle slots; process_ready_issues returns, run_continuous goes to
\* cleanup and sleep, run_until_empty re-checks the queue when nothing was
\* spawned and no slot is running and otherwise goes to cleanup and sleep
PassEnds(d) ==
    /\ InPass(d)
    /\ LET idle == MaxAgents - sv_active
           spawned == IF sv_board < idle THEN sv_board ELSE idle
       IN /\ sv_active' = sv_active + spawned
          /\ sv_board' = sv_board - spawned
          /\ IF sv_driver[d].kind = "spawn"
             THEN DriverEnds(d)
             ELSE /\ sv_driver' = [sv_driver EXCEPT ![d].pc =
                        IF Draining(d) /\ spawned = 0 /\ sv_active = 0
                        THEN "recheck" ELSE "sleep"]
                  /\ UNCHANGED <<sv_draining, sv_sched>>
    /\ UNCHANGED <<sv_running, sv_response, h_run_over_drain>>
    /\ ServiceFrame

\* the second build of run_until_empty returns: an empty queue ends the
\* drain, anything else sends it to cleanup and sleep
RecheckEnds(d) ==
    /\ sv_driver[d].pc = "recheck"
    /\ IF sv_board = 0
       THEN DriverEnds(d)
       ELSE /\ sv_driver' = [sv_driver EXCEPT ![d].pc = "sleep"]
            /\ UNCHANGED <<sv_draining, sv_sched>>
    /\ UNCHANGED <<sv_active, sv_board, sv_running, sv_response, h_run_over_drain>>
    /\ ServiceFrame

\* asyncio.sleep of a run loop returns: the loop condition, then the build
\* of the next pass
SleepEnds(d) ==
    /\ sv_driver[d].pc = "sleep"
    /\ IF (IF Draining(d) THEN sv_draining ELSE sv_running)
       THEN /\ sv_driver' = [sv_driver EXCEPT ![d].pc = "build"]
            /\ UNCHANGED <<sv_draining, sv_sched>>
       ELSE DriverEnds(d)
    /\ UNCHANGED <<sv_active, sv_board, sv_running, sv_response, h_run_over_drain>>
    /\ ServiceFrame

\* a workflow ends and its slot is idle again
AgentEnds ==
    /\ sv_active > 0
    /\ sv_active' = sv_active - 1
    /\ UNCHANGED <<sv_driver, sv_board, sv_running, sv_draining, sv_sched,
                   sv_response, h_run_over_drain>>
    /\ ServiceFrame

NextService ==
    \/ \E d \in DriverIds : SpawnRequest(d)
    \/ \E d \in DriverIds : RunRequest(d)
    \/ \E d \in DriverIds : StartRequest(d)
    \/ \E d \in DriverIds : SchedulerTrigger(d)
    \/ StopRequest
    \/ \E d \in DriverIds : PassEnds(d)
    \/ \E d \in DriverIds : RecheckEnds(d)
    \/ \E d \in DriverIds : SleepEnds(d)
    \/ AgentEnds

SpecService == ServiceInit /\ [][NextService]_vars

(* --------------------------- a drain to its end ----------------------- *)
\* One run_until_empty call on a board whose items stay: every fetch pair
\* returns each item the pool has not processed, as an in-progress or as a
\* ready item; workflows end with success.
DrainDriver == CHOOSE d \in Drivers : \A e \in Drivers : d <= e
DrainBoard == {i \in QueueItems : i.repo_owner = "acme" \/ i.number = 1}
Unprocessed == {i \in DrainBoard : IssueKey(i) \notin processed_issues}

\* fetch_in_progress_issues: the unprocessed items that are In Progress
DrainFetchInProgress(d) ==
    /\ pc[d] = "fetch_ip"
    /\ \E in_progress \in DistinctSeqUpTo(Unprocessed, Cardinality(DrainBoard)) :
          ip_fetched' = [ip_fetched EXCEPT ![d] = in_progress]
    /\ pc' = [pc EXCEPT ![d] = "fetch_ready"]
    /\ UNCHANGED poolVars
    /\ UNCHANGED <<phase, ready_fetched>>
    /\ UNCHANGED histVars
    /\ UNCHANGED sideVars

\* fetch_ready_issues: the unprocessed items that are Ready, which are the
\* ones that are not In Progress
DrainFetchReady(d) ==
    /\ pc[d] = "fetch_ready"
    /\ \E ready \in DistinctSeqUpTo(Unprocessed, Cardinality(DrainBoard)) :
          /\ \A i \in Unprocessed :
                (\E k \in 1..Len(ready) : ready[k] = i)
                    <=> ~(\E k \in 1..Len(ip_fetched[d]) : ip_fetched[d][k] = i)
          /\ ready_fetched' = [ready_fetched EXCEPT ![d] = ready]
    /\ pc' = [pc EXCEPT ![d] = "build"]
    /\ UNCHANGED poolVars
    /\ UNCHANGED <<phase, ip_fetched>>
    /\ UNCHANGED histVars
    /\ UNCHANGED sideVars

NextDrain ==
    \/ \E limit \in (-1)..MaxLimit : SetMaxIssuesPerRun(limit)
    \/ StartOnlyRun(DrainDriver)
    \/ Wake(DrainDriver)
    \/ DrainFetchInProgress(DrainDriver)
    \/ DrainFetchReady(DrainDriver)
    \/ ProcessWorkQueue(DrainDriver)
    \/ Cleanup(DrainDriver)
    \/ \E t \in tasks : WorkflowStart(t)
    \/ \E t \in tasks : WorkflowEnd(t, "success")

\* The event loop runs every coroutine that can run: the sleeps and the
\* fetches of the drain return, its passes run, created tasks start, and
\* (the premise that every workflow terminates) running workflows end.
SpecDrainFair ==
    /\ Init
    /\ [][NextDrain]_vars
    /\ WF_vars(Wake(DrainDriver))
    /\ WF_vars(DrainFetchInProgress(DrainDriver))
    /\ WF_vars(DrainFetchReady(DrainDriver))
    /\ WF_vars(ProcessWorkQueue(DrainDriver))
    /\ WF_vars(Cleanup(DrainDriver))
    /\ WF_vars(\E t \in tasks : WorkflowStart(t))
    /\ WF_vars(\E t \in tasks : WorkflowEnd(t, "success"))

(* ------------------------------- claims ------------------------------- *)
PassPcs == {"fetch_ip", "fetch_ready", "build"}
\* the queue driver d is about to assemble, for each result of the PR-comment fetch
PendingQueues(d) ==
    {BuildWorkQueue(pr_items, ip_fetched[d], ready_fetched[d]) :
        pr_items \in PrFetches(processed_issues)}
RunningTasks == {t \in tasks : t.pc = "running"}
\* the workflows spawned by the step: spawn_agent creates them in state "created"
SpawnedInStep == {t \in tasks' : t.pc = "created"} \ tasks

\* C1: in every reachable state the number of in-flight workflows (tasks
\* created and not yet ended) and the number of running slots are at most
\* MaxAgents.
C1_InFlightAtMostMaxAgents ==
    /\ Cardinality(tasks) <= MaxAgents
    /\ ActiveAgents(slots) <= MaxAgents

\* C1 witness: the pool is full, every slot hosts a workflow
C1_Witness ==
    /\ Cardinality(tasks) = MaxAgents
    /\ \A s \in SlotIds : slots[s].state = "running"

\* C2 (as claimed): no step spawns two workflows for one WorkKey, and no step
\* spawns a workflow for a WorkKey that was admitted before (is in the
\* processed set).
C2_NoKeyAdmittedTwice ==
    [][\A k \in AllKeys :
          LET new == {t \in SpawnedInStep : t.key = k}
          IN /\ Cardinality(new) <= 1
             /\ new # {} => k \notin processed_issues]_vars

\* C3: a slot that hosts an unfinished workflow still belongs to it: it is
\* running and holds the workflow's item, WorkKey and task, and no other
\* unfinished workflow sits in the same slot.
C3_SlotNeverDoubleBooked ==
    /\ \A t \in tasks :
          /\ slots[t.slot].state = "running"
          /\ slots[t.slot].issue = t.issue
          /\ slots[t.slot].work_key = t.key
          /\ slots[t.slot].task = TaskOf(t.slot, t.key)
    /\ \A t1, t2 \in tasks : t1.slot = t2.slot => t1 = t2

\* C3 witness: both drivers are inside a pass while a spawned workflow has
\* not started yet and the other slot is still free
C3_Witness ==
    /\ \A d \in Drivers : pc[d] \in PassPcs /\ phase[d] = "pass"
    /\ \E t \in tasks : t.pc = "created"
    /\ \E s \in SlotIds : slots[s].state = "idle"

\* C4 (as claimed): two workflows in flight at the same moment under
\* different WorkKeys have different workspace paths.
C4_WorkspaceOwnedByOneWorkflow ==
    \A t1, t2 \in tasks :
        t1.key # t2.key => WorktreePath(t1.issue) # WorktreePath(t2.issue)

\* C5 (as claimed): distinct (repoName, number) pairs get distinct session names.
C5_SessionNameInjective ==
    (name_out # << >> /\ name_in[1] # name_in[2]) => name_out[1] # name_out[2]

\* C6: once the fatal error is set no step changes it, and no driver starts
\* building a work queue (every pass attempted later raises at its entry
\* check, before any fetch or spawn).
C6_FatalErrorLatch ==
    [][fatal_error # NoError =>
          /\ fatal_error' = fatal_error
          /\ \A d \in Drivers :
                (pc[d] \notin PassPcs /\ pc'[d] # pc[d]) =>
                    /\ pc'[d] \notin PassPcs
                    /\ UNCHANGED <<slots, tasks, processed_issues>>]_vars

\* C6 witness: a second workflow failed after the latch and a driver's run
\* has raised
C6_Witness ==
    /\ fatal_error # NoError
    /\ failed_count >= 2
    /\ \E d \in Drivers : pc[d] = "raised"

\* the fatal error was latched by the failure of a workflow
LatchedByWorkflow(err) == err # NoError /\ err[2] \in FailureOutcomes

\* C7 (as claimed): a run that is active when a workflow failure latches the
\* fatal error never returns normally.  (A run started after the latch raises
\* inside StartRun, so an active run that sees a latched error saw it latch.)
C7_RunRaisesAfterFatal ==
    [][\A d \in Drivers :
          (pc[d] \in ActivePcs /\ pc'[d] = "returned") =>
              ~LatchedByWorkflow(fatal_error')]_vars

C9_SlotFinalization ==
    /\ [](active_gauge = Cardinality(RunningTasks))
    /\ [][\A t \in RunningTasks :
             t \notin tasks' =>
                /\ slots'[t.slot] = IdleSlot
                /\ active_gauge' = active_gauge - 1]_vars

\* C9 witness: workflows have ended both with success and with a failure and
\* nothing is in flight
C9_Witness ==
    /\ completed_count >= 1
    /\ failed_count >= 1
    /\ tasks = {}
    /\ active_gauge = 0

\* C10: (a) the key of every workflow, also of one that has not run its
\* first step, is in the processed set; (b) the processed set only grows;
\* (c) the key of a workflow that ends, failed or not, is in the processed set,
\* and the queue a driver builds holds no key that was in the processed set when
\* the driver entered that build, hence no key whose workflow had failed by then.
C10_ProcessedBeforeStart ==
    /\ [](\A t \in tasks : t.key \in processed_issues)
    /\ [][processed_issues \subseteq processed_issues']_vars
    /\ [][\A t \in tasks : t \notin tasks' => t.key \in processed_issues']_vars
    /\ [](\A d \in Drivers :
            pc[d] = "build" =>
                \A work_queue \in PendingQueues(d) :
                    QueueKeys(work_queue) \cap processed_at_entry[d] = {})

\* C10 witness: a workflow failed and its key is processed, a spawned workflow
\* has not started yet, and a driver that entered its build with a non-empty
\* processed set is assembling a queue from two non-empty fetches
C10_Witness ==
    /\ failed_count >= 1
    /\ \E t \in tasks : t.pc = "created"
    /\ \E d \in Drivers :
          /\ pc[d] = "build"
          /\ processed_at_entry[d] # {}
          /\ ip_fetched[d] # << >>
          /\ ready_fetched[d] # << >>

\* C11 (as claimed): under a limit n > 0 the workflows spawned during the one
\* run of the process are at most n.
C11_SpawnedAtMostLimit ==
    max_issues_per_run > 0 => spawned_total <= max_issues_per_run

\* C12 (as claimed): every item in the queue of a LOCAL pool carries the local
\* label and every item in the queue of a REMOTE pool carries the remote label.
C12_AdmittedMatchesTarget ==
    \A i \in 1..Len(admit_queue) :
        /\ target = "local" => LocalLabel \in admit_queue[i].labels
        /\ target = "remote" => RemoteLabel \in admit_queue[i].labels

ClaimRetryable(response) ==
    \/ response.status \in {429, 500, 502, 503, 504}
    \/ /\ response.status = 403
       /\ response.remaining = "0" \/ response.retry_after

\* C14: after a response _request waits for another request exactly when
\* attempts remain and the response is a 429, 500, 502, 503, 504 or a 403
\* with X-RateLimit-Remaining "0" or a Retry-After header; after a 400, 401,
\* 404, 422 or a 403 without those headers the call is over at once.
C14_RetryDecision ==
    (last_reply # NoReply /\ last_reply.type = "response") =>
        /\ retry_pc = "sleep" =>
              ClaimRetryable(last_reply) /\ attempt <= max_retries
        /\ retry_pc \in {"done", "graphql_sleep"} =>
              ~(ClaimRetryable(last_reply) /\ attempt < max_retries)
        /\ (\/ last_reply.status \in {400, 401, 404, 422}
            \/ /\ last_reply.status = 403
               /\ last_reply.remaining # "0"
               /\ ~last_reply.retry_after) => retry_pc = "done"

C14_Witness ==
    /\ retry_pc = "sleep"
    /\ last_reply # NoReply
    /\ last_reply.type = "response"
    /\ last_reply.status = 403
    /\ last_reply.remaining = "0"
    /\ attempt = max_retries

\* C15 (as claimed): one client call sends at most max_retries + 1 HTTP
\* requests, whatever mix of transport errors, retryable statuses and
\* GraphQL rate-limit errors it meets.
C15_AtMostMaxRetriesPlusOne ==
    requests_sent <= max_retries + 1

\* C16: a nudge is sent only after task_nudge_after_seconds without a new
\* signature; between two readings of a new signature at most
\* task_nudge_max_attempts nudges are sent (for a positive limit); two
\* nudges in a row are at least task_nudge_interval_seconds apart; and a
\* newly read signature resets the loop's nudge count and no-progress clock.
C16_NudgeTiming ==
    /\ h_last_nudge # 0 =>
          /\ cfg.task_nudge_after_seconds > 0
          /\ h_nudge_idle >= cfg.task_nudge_after_seconds
    /\ cfg.task_nudge_max_attempts > 0 => h_sent <= cfg.task_nudge_max_attempts
    /\ h_prev_nudge # 0 =>
          h_last_nudge - h_prev_nudge >= cfg.task_nudge_interval_seconds
    /\ (wait_pc = "waiting" /\ session_name) =>
          /\ last_progress_time = h_progress
          /\ nudge_count = h_sent

C16_Witness ==
    /\ wait_pc = "waiting"
    /\ h_progress > start_time
    /\ h_prev_nudge > h_progress
    /\ h_sent = MaxNudgeAttempts
    /\ cfg.task_nudge_max_attempts = MaxNudgeAttempts

\* C17: the session is killed for a restart at most task_nudge_max_restarts
\* times, and the result task_nudge_exceeded is recorded only when the wait
\* returned nudge_exceeded after the last allowed restart.
C17_RestartsBounded ==
    /\ h_restarts <= cfg.task_nudge_max_restarts
    /\ agent_result = "task_nudge_exceeded" =>
          /\ wait_status = "nudge_exceeded"
          /\ h_restarts = cfg.task_nudge_max_restarts
          /\ wait_pc = "ended"

C17_Witness ==
    /\ agent_result = "task_nudge_exceeded"
    /\ cfg.task_nudge_max_attempts = 2
    /\ cfg.task_nudge_max_restarts = 1
    /\ h_restarts = 1
    /\ h_total_nudges = 4
    /\ ~h_session_lost

\* C18 (as claimed): with task_nudge_max_attempts = 0 no nudge is ever sent
\* and the wait never returns nudge_exceeded.
C18_ZeroAttemptsDisablesNudging ==
    cfg.task_nudge_max_attempts = 0 =>
        /\ h_total_nudges = 0
        /\ wait_status # "nudge_exceeded"

\* C19: with task_wait_timeout_seconds = 0 the wait never returns timeout
\* and task_wait_timeout is never recorded; with a positive timeout T,
\* task_wait_timeout is recorded only when the wait has lasted at least T.
C19_TimeoutOnlyWhenElapsed ==
    /\ cfg.task_wait_timeout_seconds = 0 =>
          /\ wait_status # "timeout"
          /\ agent_result # "task_wait_timeout"
    /\ agent_result = "task_wait_timeout" =>
          /\ cfg.task_wait_timeout_seconds > 0
          /\ now - start_time >= cfg.task_wait_timeout_seconds

C19_Witness ==
    /\ cfg.task_wait_timeout_seconds = 0
    /\ wait_pc = "waiting"
    /\ ~done_marker
    /\ now - start_time = MaxTime - 1

\* C20 (as claimed): when the session vanished during the wait and there is
\* no done marker, the item ends with the error missing_done_file.
C20_LostSessionIsMissingDoneFile ==
    (wait_pc = "ended" /\ h_session_lost /\ ~done_marker) =>
        agent_result = "missing_done_file"

\* C21 (as claimed): once a workflow has ended with success,
\* task_wait_timeout or task_nudge_exceeded and its slot is idle again, the
\* session of the item is not alive.
C21_SessionDestroyedAtEnd ==
    (wait_pc = "finished"
        /\ agent_result \in {"success", "task_wait_timeout", "task_nudge_exceeded"})
    => ~session_alive


\* C22 (as claimed): whenever a run of the workflow ends with a success
\* result, ACE_TASK_DONE.json does not exist in the worktree at that moment.
C22_MarkerConsumedOnSuccess ==
    (task_pc = "returned" /\ task_result = "success") => h_end_marker = NoMarker

\* C23 (as claimed): once a run has read a marker file that is malformed,
\* empty or fails completion validation, the run has ended with the failed
\* result task_validation_failed; it is neither still running or waiting nor
\* ended with another result.
C23_BadMarkerFailsItem ==
    h_bad_read => (task_pc = "returned" /\ task_result = "task_validation_failed")


\* C24 (as claimed): every worktree a sweep removes is, at the removal, held
\* by no running slot of any pool on the workspace root, has no live session
\* named for it and is at least cleanup_worktree_retention old; and with
\* cleanup_only_done no worktree is removed.
C24_WorktreeRemovalGuards ==
    \A r \in h_removed :
        /\ ~r.held
        /\ ~r.live
        /\ r.age >= rc_cfg.cleanup_worktree_retention
        /\ ~rc_cfg.cleanup_only_done

\* C25 (as claimed): every session a sweep kills has been inactive for at
\* least cleanup_tmux_retention (the boundary instant is counted as old, as
\* the code counts it), is not the session of a running slot of the sweeping
\* pool, and is not the session of an item whose worktree exists while
\* cleanup_only_done is set.
C25_SessionKillGuards ==
    \A k \in h_killed :
        /\ k.age >= rc_cfg.cleanup_tmux_retention
        /\ ~k.own_slot
        /\ ~(rc_cfg.cleanup_only_done /\ k.bound)


C27_ClaimedBeforeRunAgent ==
    (/\ g_pc \in {"run_agent", "in_run_agent"}
     /\ g_entry = "pool"
     /\ g_issue.repo_known
     /\ ~g_settings.disable_issue_status)
    => /\ h_comment_call # "none"
       /\ h_comment_call = "ok" => (g_claim_comment /\ h_status_call # "none")
       /\ h_status_call = "ok" => g_board_status = "In progress"

\* the pair the claim names for a label list
ClaimedPair(table, labels) ==
    IF InList(DifficultyEasy, labels) THEN table[DifficultyEasy]
    ELSE IF InList(DifficultyMedium, labels) THEN table[DifficultyMedium]
    ELSE IF InList(DifficultyHard, labels) THEN table[DifficultyHard]
    ELSE table[DifficultyEasy]

\* C29 (as claimed): once select_backend has run, the state holds a pair of
\* the difficulty table: the pair of the first of difficulty:easy,
\* difficulty:medium, difficulty:hard among the labels, the easy pair when
\* there is none.
C29_SelectBackendFromTable ==
    g_pc \in {"run_agent", "in_run_agent"} =>
        /\ \E e \in DOMAIN g_settings.difficulty_map :
              g_selected = g_settings.difficulty_map[e]
        /\ g_selected = ClaimedPair(g_settings.difficulty_map, g_issue.labels)


C30_CloseAfterDrain ==
    client_closed => h_inflight_at_close = {}


\* the entries of a queue built without the advisor, by category: counts
\* gives the length of each category
QueueCategory(name) ==
    LET a == wq_counts.pr_comment
        b == a + wq_counts.in_progress
    IN IF name = "pr_comment" THEN SubSeq(wq_queue, 1, a)
       ELSE IF name = "in_progress" THEN SubSeq(wq_queue, a + 1, b)
       ELSE SubSeq(wq_queue, b + 1, Len(wq_queue))

QueueNumbers(entries) == {entries[k].issue.number : k \in 1..Len(entries)}

\* C31: the queue built with the advisor off lists the PR-comment items
\* first, then the in-progress items, then the ready items, and every review
\* comment fetch_pr_comment_work_items returned (one with an id, whose key is
\* not processed) is an entry of the queue under its key
\* pr_comment:<owner>/<repo>#<pr>:<commentId>.
C31_PrCommentsQueuedFirst ==
    (wq_pc = "returned" /\ ~wq_manager) =>
        /\ \A c \in 1..Len(wq_comments) :
              LET issue == wq_comments[c].issue
                  key == <<"pr_comment", issue.repo_owner, issue.repo_name,
                           issue.number, wq_comments[c].id>>
              IN (wq_comments[c].id # 0 /\ key \notin wq_processed)
                 => \E q \in 1..Len(QueueCategory("pr_comment")) :
                       QueueCategory("pr_comment")[q] = [issue |-> issue, key |-> key]
        /\ \A q \in 1..Len(QueueCategory("pr_comment")) :
              QueueCategory("pr_comment")[q].key[1] = "pr_comment"
        /\ \A q \in 1..Len(QueueCategory("in_progress")) :
              /\ QueueCategory("in_progress")[q].key[1] = "issue"
              /\ \E j \in 1..Len(wq_in_progress) :
                    wq_in_progress[j] = QueueCategory("in_progress")[q].issue
        /\ \A q \in 1..Len(QueueCategory("ready")) :
              /\ QueueCategory("ready")[q].key[1] = "issue"
              /\ \E j \in 1..Len(wq_ready) :
                    wq_ready[j] = QueueCategory("ready")[q].issue


\* the classified list of a build, by category
ClassifiedCategory(name) ==
    LET a == wq_counts.pr_comment
        b == a + wq_counts.in_progress
    IN IF name = "pr_comment" THEN SubSeq(wq_ordered, 1, a)
       ELSE IF name = "in_progress" THEN SubSeq(wq_ordered, a + 1, b)
       ELSE SubSeq(wq_ordered, b + 1, Len(wq_ordered))

\* C32: in a built queue no issue number is both among the PR-comment
\* entries and among the in-progress or ready entries, and no number is both
\* among the in-progress and among the ready entries.
C32_NoNumberInTwoCategories ==
    wq_pc \in {"advising", "returned"} =>
        /\ QueueNumbers(ClassifiedCategory("pr_comment"))
             \cap (QueueNumbers(ClassifiedCategory("in_progress"))
                     \cup QueueNumbers(ClassifiedCategory("ready"))) = {}
        /\ QueueNumbers(ClassifiedCategory("in_progress"))
             \cap QueueNumbers(ClassifiedCategory("ready")) = {}


\* the first position of a key in the advisor's answer, 0 when it is not there
AnswerPosition(key) ==
    IF \E k \in 1..Len(wq_ordered_keys) : wq_ordered_keys[k] = key
    THEN CHOOSE k \in 1..Len(wq_ordered_keys) :
            /\ wq_ordered_keys[k] = key
            /\ \A j \in 1..(k - 1) : wq_ordered_keys[j] # key
    ELSE 0

\* the first position of a key in the classified list
ClassifiedPosition(key) ==
    CHOOSE k \in 1..Len(wq_ordered) :
        /\ wq_ordered[k].key = key
        /\ \A j \in 1..(k - 1) : wq_ordered[j].key # key

\* C33: whatever list of keys the advisor answers (unknown and repeated keys
\* included), the returned queue holds exactly the WorkKeys of the classified
\* list, each once: the answered ones in the advisor's order, then the others
\* in their original order.
C33_AdvisorPermutes ==
    (wq_pc = "returned" /\ wq_manager) =>
        /\ QueueKeys(wq_queue) = QueueKeys(wq_ordered)
        /\ \A a, b \in 1..Len(wq_queue) : wq_queue[a].key = wq_queue[b].key => a = b
        /\ \A a, b \in 1..Len(wq_queue) :
              a < b =>
                LET pa == AnswerPosition(wq_queue[a].key)
                    pb == AnswerPosition(wq_queue[b].key)
                IN IF pa > 0 /\ pb > 0 THEN pa < pb
                   ELSE IF pa = 0 /\ pb = 0
                        THEN ClassifiedPosition(wq_queue[a].key)
                               < ClassifiedPosition(wq_queue[b].key)
                        ELSE pa > 0


\* a header that is there and parses as a number
HeaderNumber(header) == HeaderTruthy(header) /\ ParseNumber(header.value).ok

\* C34: the delay is chosen by first match whatever headers are present,
\* absent or unparsable: the number of Retry-After when there is one; else,
\* when X-RateLimit-Remaining is "0" and X-RateLimit-Reset is a number,
\* max(0, reset - now) + 1; else base * 2^attempt + jitter clamped to
\* maxDelay, with 0 <= jitter < base.  The delay is never negative and the
\* backoff never exceeds maxDelay.
C34_DelayFirstMatch ==
    rd_pc = "returned" =>
        /\ rd_delay >= 0
        /\ IF rd_response.present /\ HeaderNumber(rd_response.retry_after)
           THEN rd_delay = ParseNumber(rd_response.retry_after.value).value
           ELSE IF /\ rd_response.present
                   /\ rd_response.remaining = Header(<<"0">>)
                   /\ HeaderNumber(rd_response.reset)
                THEN LET reset == ParseNumber(rd_response.reset.value).value
                     IN rd_delay = (IF reset > rd_now THEN reset - rd_now ELSE 0) + 1
                ELSE /\ rd_delay <= rd_settings.max_delay
                     /\ \E jitter \in 0..(rd_settings.base - 1) :
                           LET backoff == rd_settings.base * (2 ^ rd_attempt) + jitter
                           IN rd_delay = IF backoff < rd_settings.max_delay
                                         THEN backoff ELSE rd_settings.max_delay


\* C35: passes on one pool never overlap: whatever /agents/spawn,
\* /agents/run and /agents/start requests and scheduler triggers arrive, at
\* most one coroutine is between the start of a queue build and the end of
\* its spawn loop, and /agents/run has never started a drain while a drain
\* was running.
C35_PassesNeverOverlap ==
    /\ Cardinality({d \in DriverIds : InPass(d)}) <= 1
    /\ ~h_run_over_drain


\* C36: once the fatal error is latched no spawn_agent call admits an item
\* any more, not even in a pass that was awaiting its queue build when the
\* error latched.
C36_NoSpawnAfterLatch ==
    [][fatal_error # NoError => spawned_total' = spawned_total]_vars


\* C37: in every state another coroutine can observe each slot is idle or
\* running, so that get_status reports active_agents + idle_slots =
\* total_slots; the completed and failed states never outlive the step that
\* sets them.
C37_SlotsIdleOrRunning ==
    /\ \A s \in SlotIds : slots[s].state \in {"idle", "running"}
    /\ ActiveAgents(slots) + IdleSlots(slots) = MaxAgents

\* a workflow has completed, another has failed, and of the two slots one
\* is idle again while the other hosts a running workflow
C37_Witness ==
    /\ completed_count > 0
    /\ failed_count > 0
    /\ ActiveAgents(slots) = 1
    /\ IdleSlots(slots) = 1


\* C38: with a positive wait timeout every run of the task loop ends,
\* whatever the agent in the session does: write no marker, write one
\* without task_id or for a task the plan does not have, or die.
C38_TaskLoopEnds ==
    (task_pc = "apply") ~> (task_pc = "returned")


\* C39: on a finite board, without a fatal error and with workflows that
\* end, a run_until_empty call that has started returns.
C39_DrainReturns ==
    (pc[DrainDriver] \in ActivePcs) ~> (pc[DrainDriver] = "returned")

\* the drain has returned after admitting every item of the board, one more
\* than the pool has slots: the item the first pass skipped was admitted by
\* a later pass
C39_Witness ==
    /\ pc[DrainDriver] = "returned"
    /\ processed_issues = {IssueKey(i) : i \in DrainBoard}
    /\ spawned_total = Cardinality(DrainBoard)
    /\ Cardinality(DrainBoard) > MaxAgents
    /\ completed_count = Cardinality(DrainBoard)


\* C40: a sweep kills only sessions whose name has the form
\* ace-<repo>-<number>, however long another session has been inactive.
C40_OnlyOwnSessionsKilled ==
    \A k \in h_killed : ParsedTable[k.name].ok

====
